---------------------------- MODULE Spec2Model ----------------------------
(***************************************************************************)
(* Model of the zipcity autocomplete engines (src/src/index.js):           *)
(*   performAutocompleteOptimized  - the in-memory scan used for Mexico,   *)
(*   performUSAutocompleteQuery    - the D1 (SQL) query used for the US,   *)
(*   performCAAutocompleteQuery    - the D1 (SQL) query used for Canada.   *)
(* A JavaScript string is a sequence of one-character strings.             *)
(***************************************************************************)
EXTENDS Integers, Sequences, FiniteSets, TLC

(***************************************************************************)
(* JavaScript string primitives                                            *)
(***************************************************************************)
Lowers == <<"a", "b", "c", "d", "e", "f", "g", "h", "i", "j", "k", "l", "m", "n", "o", "p", "q", "r", "s", "t", "u", "v", "w", "x", "y", "z">>
Uppers == <<"A", "B", "C", "D", "E", "F", "G", "H", "I", "J", "K", "L", "M", "N", "O", "P", "Q", "R", "S", "T", "U", "V", "W", "X", "Y", "Z">>
DigitChars == <<"0", "1", "2", "3", "4", "5", "6", "7", "8", "9">>

IndexIn(tuple, c) == CHOOSE k \in 1..Len(tuple) : tuple[k] = c
Range(tuple) == {tuple[k] : k \in 1..Len(tuple)}

LowerSet == Range(Lowers)
UpperSet == Range(Uppers)
DigitSet == Range(DigitChars)
LowerOfUpper == [c \in UpperSet |-> Lowers[IndexIn(Uppers, c)]]
UpperOfLower == [c \in LowerSet |-> Uppers[IndexIn(Lowers, c)]]
DigitValue == [c \in DigitSet |-> IndexIn(DigitChars, c) - 1]
LetterRank == [c \in LowerSet |-> IndexIn(Lowers, c)]

IsDigit(c) == c \in DigitSet
IsLetter(c) == c \in LowerSet \/ c \in UpperSet
IsWhitespace(c) == c = " "

\* String.prototype.toLowerCase / toUpperCase, one character: the Unicode
\* case mapping, here of the ASCII letters and of the letter e with acute
\* (U+00C9 and U+00E9, written "E-acute" and "e-acute")
toLowerCaseChar(c) == IF c \in UpperSet THEN LowerOfUpper[c] ELSE IF c = "E-acute" THEN "e-acute" ELSE c
toUpperCaseChar(c) == IF c \in LowerSet THEN UpperOfLower[c] ELSE IF c = "e-acute" THEN "E-acute" ELSE c

\* SQLite's built-in LOWER(X) and the case folding of LIKE: "for ASCII
\* characters only"; every other character is left as it is
sqlLowerChar(c) == IF c \in UpperSet THEN LowerOfUpper[c] ELSE c
sqlLower(s) == [k \in 1..Len(s) |-> sqlLowerChar(s[k])]

\* String.prototype.toLowerCase
toLowerCase(s) == [k \in 1..Len(s) |-> toLowerCaseChar(s[k])]

\* String.prototype.trim: drops the whitespace at both ends
RECURSIVE trimStart(_)
trimStart(s) == IF s # <<>> /\ IsWhitespace(Head(s)) THEN trimStart(Tail(s)) ELSE s
RECURSIVE trimEnd(_)
trimEnd(s) == IF s # <<>> /\ IsWhitespace(s[Len(s)]) THEN trimEnd(SubSeq(s, 1, Len(s) - 1)) ELSE s
trim(s) == trimEnd(trimStart(s))

\* String.prototype.startsWith
startsWith(s, p) == Len(p) <= Len(s) /\ SubSeq(s, 1, Len(p)) = p

\* String.prototype.includes
includes(s, p) == \E k \in 0..(Len(s) - Len(p)) : SubSeq(s, k + 1, k + Len(p)) = p

\* String.prototype.split(','): the pieces between the separators, empty ones kept
RECURSIVE splitOn(_, _, _)
splitOn(s, sep, cur) ==
    IF s = <<>> THEN <<cur>>
    ELSE IF Head(s) = sep THEN <<cur>> \o splitOn(Tail(s), sep, <<>>)
    ELSE splitOn(Tail(s), sep, Append(cur, Head(s)))
split(s, sep) == splitOn(s, sep, <<>>)

\* String.prototype.split(/\s+/): a run of whitespace is one separator; a string
\* that starts or ends with whitespace yields an empty first or last piece
RECURSIVE splitWs(_, _, _)
splitWs(s, cur, inRun) ==
    IF s = <<>> THEN <<cur>>
    ELSE IF IsWhitespace(Head(s))
         THEN IF inRun THEN splitWs(Tail(s), cur, TRUE)
              ELSE <<cur>> \o splitWs(Tail(s), <<>>, TRUE)
    ELSE splitWs(Tail(s), Append(cur, Head(s)), FALSE)
splitWhitespace(s) == splitWs(s, <<>>, FALSE)

\* /^\d+/.test(query): the string, untrimmed, begins with a digit
testLeadingDigits(s) == s # <<>> /\ IsDigit(s[1])

\* /^[A-Za-z]\d[A-Za-z]?/.test(query): a letter, then a digit
testCanadianPrefix(s) == Len(s) >= 2 /\ IsLetter(s[1]) /\ IsDigit(s[2])

(***************************************************************************)
(* String.prototype.localeCompare under the root collation: the primary    *)
(* weights order whitespace < punctuation < digits < letters and ignore    *)
(* case; strings equal at the primary level are ordered by case, lower     *)
(* case first.                                                             *)
(***************************************************************************)
PrimaryWeight(c) ==
    IF c = " " THEN 1
    ELSE IF c = "-" THEN 2
    ELSE IF c = "," THEN 3
    ELSE IF IsDigit(c) THEN 11 + DigitValue[c]
    ELSE IF IsLetter(c) THEN 30 + LetterRank[toLowerCaseChar(c)]
    ELSE 4

RECURSIVE comparePrimary(_, _)
comparePrimary(a, b) ==
    IF a = <<>> /\ b = <<>> THEN 0
    ELSE IF a = <<>> THEN -1
    ELSE IF b = <<>> THEN 1
    ELSE IF PrimaryWeight(Head(a)) < PrimaryWeight(Head(b)) THEN -1
    ELSE IF PrimaryWeight(Head(a)) > PrimaryWeight(Head(b)) THEN 1
    ELSE comparePrimary(Tail(a), Tail(b))

RECURSIVE compareCase(_, _)
compareCase(a, b) ==
    IF a = <<>> \/ b = <<>> THEN 0
    ELSE IF Head(a) = Head(b) THEN compareCase(Tail(a), Tail(b))
    ELSE IF Head(a) \in LowerSet THEN -1 ELSE 1

localeCompare(a, b) ==
    IF comparePrimary(a, b) # 0 THEN comparePrimary(a, b) ELSE compareCase(a, b)


(***************************************************************************)
(* Place records.  A field the JSON object does not have is Absent (the    *)
(* JavaScript value undefined).                                            *)
(***************************************************************************)
Absent == <<"undefined value">>

\* A field holding a JSON number instead of a string (a postal code stored
\* as 5401): the value keeps its decimal digits
Number(digits) == <<"number value", digits>>
isNumber(f) == Len(f) = 2 /\ f[1] = "number value"

\* item.field || ''  (a non-zero number is truthy and stays a number)
orEmpty(f) == IF f = Absent THEN <<>> ELSE f

\* `${item.field}` inside a template literal
s_undefined == <<"u", "n", "d", "e", "f", "i", "n", "e", "d">>
template(f) == IF f = Absent THEN s_undefined ELSE IF isNumber(f) THEN f[2] ELSE f

Rec(zipcode, place, state_code, state) ==
    [zipcode |-> zipcode, place |-> place, state_code |-> state_code, state |-> state]

s_Burlington == <<"B", "u", "r", "l", "i", "n", "g", "t", "o", "n">>
s_burlington_lc == <<"b", "u", "r", "l", "i", "n", "g", "t", "o", "n">>
s_South_Burlington == <<"S", "o", "u", "t", "h", " ", "B", "u", "r", "l", "i", "n", "g", "t", "o", "n">>
s_Coos_Bay == <<"C", "o", "o", "s", " ", "B", "a", "y">>
s_Winooski == <<"W", "i", "n", "o", "o", "s", "k", "i">>
s_Mexicali == <<"M", "e", "x", "i", "c", "a", "l", "i">>
s_Aguascalientes == <<"A", "g", "u", "a", "s", "c", "a", "l", "i", "e", "n", "t", "e", "s">>
s_Baja_California == <<"B", "a", "j", "a", " ", "C", "a", "l", "i", "f", "o", "r", "n", "i", "a">>
s_WA == <<"W", "A">>
s_WI == <<"W", "I">>
s_wi_lc == <<"w", "i">>
s_WV == <<"W", "V">>
s_WY == <<"W", "Y">>
s_VT == <<"V", "T">>
s_OR == <<"O", "R">>
s_NW == <<"N", "W">>
s_AGU == <<"A", "G", "U">>
s_BCN == <<"B", "C", "N">>
s_AGUASCALIENTES_uc == <<"A", "G", "U", "A", "S", "C", "A", "L", "I", "E", "N", "T", "E", "S">>
s_Toluca == <<"T", "o", "l", "u", "c", "a">>
s_Mexico == <<"M", "e", "x", "i", "c", "o">>
s_MEX == <<"M", "E", "X">>
s_Ciudad_de_Mexico == <<"C", "i", "u", "d", "a", "d", " ", "d", "e", " ", "M", "e", "x", "i", "c", "o">>
s_DIF == <<"D", "I", "F">>
s_50000 == <<"5", "0", "0", "0", "0">>
s_Montreal == <<"M", "o", "n", "t", "r", "e-acute", "a", "l">>
s_MONTREAL_uc == <<"M", "O", "N", "T", "R", "E-acute", "A", "L">>
s_QC == <<"Q", "C">>
s_qc_lc == <<"q", "c">>
s_H2X == <<"H", "2", "X">>
s_01000 == <<"0", "1", "0", "0", "0">>
s_05401 == <<"0", "5", "4", "0", "1">>
s_05402 == <<"0", "5", "4", "0", "2">>
s_05403 == <<"0", "5", "4", "0", "3">>
s_98233 == <<"9", "8", "2", "3", "3">>
s_53105 == <<"5", "3", "1", "0", "5">>
s_25507 == <<"2", "5", "5", "0", "7">>
s_82411 == <<"8", "2", "4", "1", "1">>
s_97420 == <<"9", "7", "4", "2", "0">>
s_20000 == <<"2", "0", "0", "0", "0">>
s_20010 == <<"2", "0", "0", "1", "0">>
s_21000 == <<"2", "1", "0", "0", "0">>

r_Burlington_WA == Rec(s_98233, s_Burlington, s_WA, Absent)
r_Burlington_WI == Rec(s_53105, s_Burlington, s_WI, Absent)
r_burlington_wi == Rec(s_53105, s_burlington_lc, s_wi_lc, Absent)
r_Burlington_WV == Rec(s_25507, s_Burlington, s_WV, Absent)
r_Burlington_WY == Rec(s_82411, s_Burlington, s_WY, Absent)
r_Burlington_VT == Rec(s_05401, s_Burlington, s_VT, Absent)
r_Burlington_VT_02 == Rec(s_05402, s_Burlington, s_VT, Absent)
r_South_Burlington_VT == Rec(s_05403, s_South_Burlington, s_VT, Absent)
r_Winooski_VT == Rec(s_05401, s_Winooski, s_VT, Absent)
r_Burlington_NW == Rec(s_98233, s_Burlington, s_NW, Absent)
r_Coos_Bay_OR == Rec(s_97420, s_Coos_Bay, s_OR, Absent)
r_Aguascalientes == Rec(s_20000, s_Aguascalientes, s_AGU, s_Aguascalientes)
r_Aguascalientes_10 == Rec(s_20010, s_Aguascalientes, s_AGU, s_Aguascalientes)
r_Mexicali == Rec(s_21000, s_Mexicali, s_BCN, s_Baja_California)
r_Montreal_QC == Rec(s_H2X, s_Montreal, s_QC, Absent)
\* {"zipcode": 5401, ...}, {"state": 20, ...}
r_numeric_zipcode == Rec(Number(<<"5", "4", "0", "1">>), s_Burlington, s_VT, Absent)
r_numeric_state == Rec(s_20000, s_Aguascalientes, s_AGU, Number(<<"2", "0">>))
r_AGUASCALIENTES_10 == Rec(s_20010, s_Aguascalientes, s_AGU, s_AGUASCALIENTES_uc)
r_Toluca == Rec(s_50000, s_Toluca, s_MEX, s_Mexico)
r_Ciudad_de_Mexico == Rec(s_01000, s_Ciudad_de_Mexico, s_DIF, s_Ciudad_de_Mexico)
\* records with a field missing or empty
r_Burlington_no_state_code == Rec(s_05401, s_Burlington, Absent, Absent)
r_VT_no_place == Rec(s_05402, Absent, s_VT, Absent)
r_VT_empty_place == Rec(s_05402, <<>>, s_VT, Absent)
r_Burlington_WI_no_zipcode == Rec(Absent, s_Burlington, s_WI, Absent)
r_Mexicali_no_state == Rec(s_21000, s_Mexicali, s_BCN, Absent)
r_Baja_California_no_state_code == Rec(s_21000, s_Mexicali, Absent, s_Baja_California)

\* The queries
q_burlington_w == <<"b", "u", "r", "l", "i", "n", "g", "t", "o", "n", " ", "w">>
q_burli_w == <<"b", "u", "r", "l", "i", " ", "w">>
q_south_bur == <<"s", "o", "u", "t", "h", " ", "b", "u", "r">>
q_so_bur == <<"s", "o", " ", "b", "u", "r">>
q_bur_sou == <<"b", "u", "r", " ", "s", "o", "u">>
q_coos_b == <<"c", "o", "o", "s", " ", "b">>
q_Burlington_c_w == <<"B", "u", "r", "l", "i", "n", "g", "t", "o", "n", ",", " ", "w">>
q_BURL == <<"B", "U", "R", "L">>
q_a_sp_sp == <<"a", " ", " ">>
q_0540 == <<"0", "5", "4", "0">>
q_sp_0540 == <<" ", "0", "5", "4", "0">>
q_054 == <<"0", "5", "4">>
q_calient == <<"c", "a", "l", "i", "e", "n", "t">>
q_200 == <<"2", "0", "0">>
q_Agu == <<"A", "g", "u">>
q_lington_c_w == <<"l", "i", "n", "g", "t", "o", "n", ",", " ", "w">>
q_burlington_c_v == <<"b", "u", "r", "l", "i", "n", "g", "t", "o", "n", ",", " ", "v">>
q_mex == <<"m", "e", "x">>
q_cal == <<"c", "a", "l">>
q_ag == <<"a", "g">>
q_xyz == <<"x", "y", "z">>
q_burlington_comma == <<"b", "u", "r", "l", "i", "n", "g", "t", "o", "n", ",">>
q_bur_sp_comma_sp == <<"b", "u", "r", " ", ",", " ">>
q_comma_bur == <<",", " ", "b", "u", "r">>

(***************************************************************************)
(* performAutocompleteOptimized: the per-call values                       *)
(***************************************************************************)
Min(a, b) == IF a < b THEN a ELSE b

\* const queryLower = query.toLowerCase().trim()
queryLowerOf(q) == trim(toLowerCase(q))

\* const isNumericQuery = /^\d+/.test(query)
isNumericQueryOf(q) == testLeadingDigits(q)

absoluteCeiling == 25

\* Mutant: the ceiling of 25 forgotten
maxLimitOf_Uncapped(lim) == lim

\* const maxLimit = Math.min(limit, 25)
maxLimitOf(lim) == Min(lim, absoluteCeiling)

chunkSize == 1000
maxItemsToProcess_Doubled == 2 * 50000
maxItemsToProcess == 50000

(***************************************************************************)
(* The record source: `pad` copies of padRec followed by the records recs. *)
(* Positions are counted from 0, as in the array.  NullSource is the value *)
(* null in the place of the array.                                         *)
(***************************************************************************)
Source(pad, padRec, recs) == [pad |-> pad, padRec |-> padRec, recs |-> recs, null |-> FALSE]
NullSource == [pad |-> 0, padRec |-> Absent, recs |-> <<>>, null |-> TRUE]
dataLength(d) == d.pad + Len(d.recs)
dataAt(d, k) == IF k < d.pad THEN d.padRec ELSE d.recs[k - d.pad + 1]

(***************************************************************************)
(* The results pushed on `matches`                                         *)
(***************************************************************************)
zipcodeDisplay(item, isCanada, isMexico) ==
    IF isMexico
    THEN template(item.zipcode) \o <<" ", "-", " ">> \o template(item.place) \o <<",", " ">> \o template(item.state)
    ELSE template(item.zipcode) \o <<" ", "-", " ">> \o template(item.place) \o <<",", " ">> \o template(item.state_code)

cityDisplay(item) == template(item.place) \o <<",", " ">> \o template(item.state_code)

zipcodeResult(item, isCanada, isMexico) ==
    [type |-> "zipcode",
     display |-> zipcodeDisplay(item, isCanada, isMexico),
     value |-> item.zipcode,
     city |-> item.place,
     state |-> IF isMexico THEN item.state ELSE item.state_code,
     state_code |-> Absent,
     zipcode |-> item.zipcode]

stateResult(item) ==
    [type |-> "state",
     display |-> item.state,
     value |-> item.state,
     city |-> Absent,
     state |-> item.state,
     state_code |-> item.state_code,
     zipcode |-> Absent]

cityResult(item) ==
    [type |-> "city",
     display |-> cityDisplay(item),
     value |-> cityDisplay(item),
     city |-> item.place,
     state |-> item.state_code,
     state_code |-> Absent,
     zipcode |-> item.zipcode]

\* Mutant: the key built without lowercasing
cityKeyOf_CaseSensitive(item) ==
    orEmpty(item.place) \o <<",">> \o orEmpty(item.state_code)

\* const cityKey = `${cityName.toLowerCase()},${stateCode.toLowerCase()}`
cityKeyOf(item) ==
    toLowerCase(orEmpty(item.place)) \o <<",">> \o toLowerCase(orEmpty(item.state_code))

(***************************************************************************)
(* The predicates of the three strategies                                  *)
(***************************************************************************)
\* Mutant: receiver and argument of startsWith swapped
zipcodeMatches_Swapped(item, ql) == startsWith(ql, toLowerCase(orEmpty(item.zipcode)))

\* code.toLowerCase().startsWith(queryLower)
zipcodeMatches(item, ql) == startsWith(toLowerCase(orEmpty(item.zipcode)), ql)

stateNameMatches_Prefix(item, ql) == startsWith(toLowerCase(orEmpty(item.state)), ql)

\* stateName.toLowerCase().includes(queryLower)
stateNameMatches(item, ql) == includes(toLowerCase(orEmpty(item.state)), ql)

\* const [cityPart, statePart] = queryLower.split(',').map(s => s.trim())
cityPartOf(ql) == trim(split(ql, ",")[1])
statePartOf(ql) == trim(split(ql, ",")[2])

\* cityName.toLowerCase().includes(cityPart)
commaCityMatches(item, ql) == includes(toLowerCase(orEmpty(item.place)), cityPartOf(ql))

\* Mutant: includes in place of startsWith
commaStateMatches_Includes(item, ql) == includes(toLowerCase(orEmpty(item.state_code)), statePartOf(ql))

\* stateCode.toLowerCase().startsWith(statePart)
commaStateMatches(item, ql) == startsWith(toLowerCase(orEmpty(item.state_code)), statePartOf(ql))

\* Mutant: equality in place of startsWith
simpleCityMatches_Exact(item, ql) == toLowerCase(orEmpty(item.place)) = ql

\* cityName.toLowerCase().startsWith(queryLower)
simpleCityMatches(item, ql) == startsWith(toLowerCase(orEmpty(item.place)), ql)

hasComma(ql) == includes(ql, <<",">>)

(***************************************************************************)
(* One iteration of the inner loop: what the record does to `matches` and  *)
(* `seenItems`.                                                            *)
(***************************************************************************)
Kept(m, seen) == [matches |-> m, seenItems |-> seen]

\* Mutant: the seenItems test dropped, as in the earlier engine
zipcodeBranch_NoDedup(item, m, seen, ql, isCanada, isMexico) ==
    IF zipcodeMatches(item, ql)
    THEN Kept(Append(m, zipcodeResult(item, isCanada, isMexico)), seen \cup {item.zipcode})
    ELSE Kept(m, seen)

zipcodeBranch(item, m, seen, ql, isCanada, isMexico) ==
    IF zipcodeMatches(item, ql) /\ item.zipcode \notin seen
    THEN Kept(Append(m, zipcodeResult(item, isCanada, isMexico)), seen \cup {item.zipcode})
    ELSE Kept(m, seen)

mexicoStateBranch(item, m, seen, ql) ==
    IF stateNameMatches(item, ql) /\ toLowerCase(orEmpty(item.state)) \notin seen
    THEN Kept(Append(m, stateResult(item)), seen \cup {toLowerCase(orEmpty(item.state))})
    ELSE Kept(m, seen)

commaCityBranch(item, m, seen, ql) ==
    IF cityPartOf(ql) # <<>> /\ statePartOf(ql) # <<>>
    THEN IF commaCityMatches(item, ql) /\ commaStateMatches(item, ql) /\ cityKeyOf(item) \notin seen
         THEN Kept(Append(m, cityResult(item)), seen \cup {cityKeyOf(item)})
         ELSE Kept(m, seen)
    ELSE Kept(m, seen)

simpleCityBranch_LastWins(item, m, seen, ql) ==
    IF simpleCityMatches(item, ql)
    THEN IF cityKeyOf(item) \notin seen
         THEN Kept(Append(m, cityResult(item)), seen \cup {cityKeyOf(item)})
         ELSE Kept([k \in 1..Len(m) |->
                       IF toLowerCase(orEmpty(m[k].city)) = toLowerCase(orEmpty(item.place))
                          /\ toLowerCase(orEmpty(m[k].state)) = toLowerCase(orEmpty(item.state_code))
                       THEN cityResult(item) ELSE m[k]], seen)
    ELSE Kept(m, seen)

simpleCityBranch(item, m, seen, ql) ==
    IF simpleCityMatches(item, ql) /\ cityKeyOf(item) \notin seen
    THEN Kept(Append(m, cityResult(item)), seen \cup {cityKeyOf(item)})
    ELSE Kept(m, seen)

scanItem(item, m, seen, q, isCanada, isMexico) ==
    IF isNumericQueryOf(q) THEN zipcodeBranch(item, m, seen, queryLowerOf(q), isCanada, isMexico)
    ELSE IF isMexico THEN mexicoStateBranch(item, m, seen, queryLowerOf(q))
    ELSE IF hasComma(queryLowerOf(q)) THEN commaCityBranch(item, m, seen, queryLowerOf(q))
    ELSE simpleCityBranch(item, m, seen, queryLowerOf(q))

\* (item.field || '').toLowerCase() where the field is not a string: TypeError
throwsToLowerCase(f) == isNumber(orEmpty(f))

\* whether the body of the inner loop throws on this record
itemThrows(item, q, isMexico) ==
    IF isNumericQueryOf(q) THEN throwsToLowerCase(item.zipcode)
    ELSE IF isMexico THEN throwsToLowerCase(item.state)
    ELSE IF hasComma(queryLowerOf(q))
    THEN /\ cityPartOf(queryLowerOf(q)) # <<>> /\ statePartOf(queryLowerOf(q)) # <<>>
         /\ throwsToLowerCase(item.place) \/ throwsToLowerCase(item.state_code)
    ELSE throwsToLowerCase(item.place) \/ throwsToLowerCase(item.state_code)

(***************************************************************************)
(* matches.sort(...): results whose display starts with the query first,   *)
(* then by localeCompare of display.  Array.prototype.sort is stable.      *)
(***************************************************************************)
compareMatches_AlphabeticalOnly(a, b, ql) == localeCompare(a.display, b.display)

compareMatches(a, b, ql) ==
    LET aExact == startsWith(toLowerCase(a.display), ql)
        bExact == startsWith(toLowerCase(b.display), ql)
    IN  IF aExact /\ ~bExact THEN -1
        ELSE IF ~aExact /\ bExact THEN 1
        ELSE localeCompare(a.display, b.display)

RECURSIVE insertSorted(_, _, _)
insertSorted(sorted, x, ql) ==
    IF sorted = <<>> THEN <<x>>
    ELSE IF compareMatches(sorted[Len(sorted)], x, ql) <= 0 THEN Append(sorted, x)
    ELSE Append(insertSorted(SubSeq(sorted, 1, Len(sorted) - 1), x, ql), sorted[Len(sorted)])

RECURSIVE sortMatches(_, _)
sortMatches(m, ql) ==
    IF m = <<>> THEN <<>>
    ELSE insertSorted(sortMatches(SubSeq(m, 1, Len(m) - 1), ql), m[Len(m)], ql)

(***************************************************************************)
(* The D1 (SQLite) queries of performUSAutocompleteQuery and               *)
(* performCAAutocompleteQuery.  The table rows are the records of the      *)
(* source; a column the row lacks is NULL.                                 *)
(***************************************************************************)
tableRows(d) == {dataAt(d, k) : k \in 0..(dataLength(d) - 1)}

\* x LIKE pattern: % is any run of characters, _ any one character, ASCII
\* letters compare without case; NULL matches nothing
RECURSIVE likeMatch(_, _)
likeMatch(s, p) ==
    IF p = <<>> THEN s = <<>>
    ELSE IF Head(p) = "%" THEN likeMatch(s, Tail(p)) \/ (s # <<>> /\ likeMatch(Tail(s), p))
    ELSE /\ s # <<>>
         /\ (Head(p) = "_" \/ sqlLowerChar(Head(s)) = sqlLowerChar(Head(p)))
         /\ likeMatch(Tail(s), Tail(p))

sqlLike(col, p) == col # Absent /\ likeMatch(col, p)

\* The BINARY collation of ORDER BY, GROUP BY and MIN: by code unit
CodeUnit(c) ==
    IF c = " " THEN 32
    ELSE IF c = "%" THEN 37
    ELSE IF c = "," THEN 44
    ELSE IF c = "-" THEN 45
    ELSE IF IsDigit(c) THEN 48 + DigitValue[c]
    ELSE IF c \in UpperSet THEN 64 + LetterRank[toLowerCaseChar(c)]
    ELSE IF c = "_" THEN 95
    ELSE IF c \in LowerSet THEN 96 + LetterRank[c]
    ELSE 127

RECURSIVE binaryLess(_, _)
binaryLess(a, b) ==
    IF b = <<>> THEN FALSE
    ELSE IF a = <<>> THEN TRUE
    ELSE IF CodeUnit(Head(a)) # CodeUnit(Head(b)) THEN CodeUnit(Head(a)) < CodeUnit(Head(b))
    ELSE binaryLess(Tail(a), Tail(b))

\* MIN(zipcode) over the rows of a group
minZipcode(rows) ==
    CHOOSE z \in {r.zipcode : r \in rows} : \A r \in rows : ~binaryLess(r.zipcode, z)

zipcodeLess(a, b) == binaryLess(a.zipcode, b.zipcode)
placeStateLess(a, b) ==
    \/ binaryLess(a.place, b.place)
    \/ a.place = b.place /\ binaryLess(a.state_code, b.state_code)

\* ORDER BY zipcode (byZipcode) or ORDER BY place, state_code: every order of
\* the rows that respects the column order; rows that tie may come out in any
\* order
rowLess(a, b, byZipcode) == IF byZipcode THEN zipcodeLess(a, b) ELSE placeStateLess(a, b)
RECURSIVE orderings(_, _)
orderings(rows, byZipcode) ==
    IF rows = {} THEN {<<>>}
    ELSE UNION {{<<x>> \o rest : rest \in orderings(rows \ {x}, byZipcode)} :
                x \in {y \in rows : \A z \in rows : ~rowLess(z, y, byZipcode)}}

\* LIMIT n: a negative n is no limit
sqlLimit(rows, n) == IF n < 0 \/ n >= Len(rows) THEN rows ELSE SubSeq(rows, 1, n)

\* SELECT DISTINCT zipcode, place, state_code ... WHERE zipcode LIKE ? ORDER BY zipcode LIMIT ?
selectZipcodes(d, pattern, lim) ==
    LET hit == {Rec(r.zipcode, r.place, r.state_code, Absent) :
                   r \in {x \in tableRows(d) : sqlLike(x.zipcode, pattern)}}
    IN  {sqlLimit(o, lim) : o \in orderings(hit, TRUE)}

\* SELECT place, state_code, MIN(zipcode) ... WHERE LOWER(place) LIKE LOWER(?)
\* [AND LOWER(state_code) LIKE LOWER(?)] GROUP BY place, state_code
\* ORDER BY place, state_code LIMIT ?
selectCities(d, placePattern, statePattern, withState, lim) ==
    LET hit == {x \in tableRows(d) :
                   /\ sqlLike(IF x.place = Absent THEN Absent ELSE sqlLower(x.place),
                              sqlLower(placePattern))
                   /\ withState =>
                        sqlLike(IF x.state_code = Absent THEN Absent ELSE sqlLower(x.state_code),
                                sqlLower(statePattern))}
        groups == {Rec(minZipcode({y \in hit : y.place = x.place /\ y.state_code = x.state_code}),
                       x.place, x.state_code, Absent) : x \in hit}
    IN  {sqlLimit(o, lim) : o \in orderings(groups, FALSE)}

\* results.results.map(item => ({...}))
mapResults(rows, kind) ==
    [k \in 1..Len(rows) |->
        IF kind = "zipcode" THEN zipcodeResult(rows[k], FALSE, FALSE) ELSE cityResult(rows[k])]

sqlCitySearch(d, q, lim) ==
    IF hasComma(queryLowerOf(q))
    THEN {mapResults(rows, "city") :
             rows \in selectCities(d, Append(cityPartOf(queryLowerOf(q)), "%"),
                                   Append(statePartOf(queryLowerOf(q)), "%"), TRUE, lim)}
    ELSE {mapResults(rows, "city") :
             rows \in selectCities(d, Append(queryLowerOf(q), "%"), <<>>, FALSE, lim)}

sqlZipcodeSearch(d, q, lim) ==
    {mapResults(rows, "zipcode") : rows \in selectZipcodes(d, Append(q, "%"), lim)}

\* const isPostalCodeQuery = /^[A-Za-z]\d[A-Za-z]?/.test(query) || /^\d+/.test(query)
isPostalCodeQueryOf(q) == testCanadianPrefix(q) \/ testLeadingDigits(q)

performUSAutocompleteQuery(d, q, lim) ==
    IF isNumericQueryOf(q) THEN sqlZipcodeSearch(d, q, lim) ELSE sqlCitySearch(d, q, lim)

performCAAutocompleteQuery(d, q, lim) ==
    IF isPostalCodeQueryOf(q) THEN sqlZipcodeSearch(d, q, lim) ELSE sqlCitySearch(d, q, lim)

(***************************************************************************)
(* The calls the model makes: an engine, its flags, a record source, a     *)
(* query and a requested limit.                                            *)
(***************************************************************************)
MaxData == 3
ManyCodes == 27

CityRecords == {r_Burlington_WI, r_burlington_wi, r_Burlington_VT, r_Burlington_VT_02,
                r_South_Burlington_VT, r_Burlington_NW}
ZipcodeRecords == {r_Burlington_VT, r_Burlington_VT_02, r_South_Burlington_VT,
                   r_Winooski_VT, r_Burlington_WA}
MexicoRecords == {r_Aguascalientes, r_Aguascalientes_10, r_Mexicali,
                  r_AGUASCALIENTES_10, r_Toluca, r_Ciudad_de_Mexico}

CityQueries == {q_burlington_w, q_south_bur, q_so_bur, q_bur_sou, q_Burlington_c_w,
                q_BURL, q_a_sp_sp}
ZipcodeQueries == {q_0540, q_sp_0540, q_054}
MexicoQueries == {q_calient, q_200, q_Agu, q_mex}

Engines == {"optimized", "us", "ca"}
SmallLimits == {1, 2}

\* 05400, 05401, ...: ManyCodes records with distinct codes
manyCodesRecord(n) ==
    Rec(<<"0", "5", "4", DigitChars[(n \div 10) + 1], DigitChars[(n % 10) + 1]>>,
        s_Burlington, s_VT, Absent)
manyCodesData == [k \in 1..ManyCodes |-> manyCodesRecord(k - 1)]

fiveBurlingtons ==
    <<r_Burlington_WA, r_Burlington_WI, r_Burlington_WV, r_Burlington_WY, r_Burlington_VT>>
fiveBurlingtonsShuffled ==
    <<r_Burlington_VT, r_Burlington_WY, r_Burlington_WA, r_Burlington_WV, r_Burlington_WI>>
threeCodes == <<r_Burlington_VT, r_Burlington_VT_02, r_South_Burlington_VT>>
threeCodesReversed == <<r_South_Burlington_VT, r_Burlington_VT_02, r_Burlington_VT>>

(***************************************************************************)
(* State                                                                   *)
(***************************************************************************)
VARIABLES engine, isCanada, isMexico, data, query, limit,
          pc, chunkStart, chunkEnd, i, matches, seenItems, itemsProcessed, result,
          requests, env, served, accessed, timer, deadline, promise, earlier

vars == <<engine, isCanada, isMexico, data, query, limit,
          pc, chunkStart, chunkEnd, i, matches, seenItems, itemsProcessed, result,
          requests, env, served, accessed, timer, deadline, promise, earlier>>

args == <<engine, isCanada, isMexico, data, query, limit>>

\* the call has returned or has thrown
Ended == pc \in {"done", "thrown"}

\* what lives outside performAutocompleteOptimized: the requests of the
\* Worker and their responses, the bindings, the timer and the promise of
\* performAutocompleteWithTimeout, the results of earlier calls
outer == <<requests, env, served, accessed, timer, deadline, promise, earlier>>

Pending == [state |-> "pending", value |-> <<>>]
\* the D1 binding and its table, the R2 binding and the JSON of its object,
\* the public URL and the JSON it serves
Env(db, table, r2, r2json, public, publicjson) ==
    [db |-> db, table |-> table, r2 |-> r2, r2json |-> r2json,
     public |-> public, publicjson |-> publicjson]
NoBindings == Env("absent", NullSource, "absent", NullSource, "not ok", NullSource)

\* no request is being served: the engine is called directly
NoWorker ==
    /\ requests = <<>>
    /\ env = NoBindings
    /\ served = <<>>
    /\ accessed = {}
    /\ timer = "none"
    /\ deadline = "ahead"
    /\ promise = Pending
    /\ earlier = <<>>

queryLower == queryLowerOf(query)
isNumericQuery == isNumericQueryOf(query)
maxLimit == maxLimitOf(limit)

\* The state in which the engine is entered with the given arguments
Called(e, c, m, d, q, lim) ==
    /\ engine = e
    /\ isCanada = c
    /\ isMexico = m
    /\ data = d
    /\ query = q
    /\ limit = lim
    /\ pc = "start"
    /\ chunkStart = 0
    /\ chunkEnd = 0
    /\ i = 0
    /\ matches = <<>>
    /\ seenItems = {}
    /\ itemsProcessed = 0
    /\ result = <<>>
    /\ NoWorker

\* Every list of at most MaxData records of a family, with every query of the
\* family, on every engine
GeneralCallsUpTo(maxLen) ==
    \E n \in 0..maxLen, lim \in SmallLimits :
        \/ \E e \in Engines, recs \in [1..n -> CityRecords], q \in CityQueries :
              Called(e, FALSE, FALSE, Source(0, r_Coos_Bay_OR, recs), q, lim)
        \/ \E e \in Engines, recs \in [1..n -> ZipcodeRecords], q \in ZipcodeQueries :
              Called(e, FALSE, FALSE, Source(0, r_Coos_Bay_OR, recs), q, lim)
        \/ \E recs \in [1..n -> MexicoRecords], q \in MexicoQueries :
              Called("optimized", FALSE, TRUE, Source(0, r_Coos_Bay_OR, recs), q, lim)

GeneralCalls == GeneralCallsUpTo(MaxData)

\* The documented examples, a source with more distinct codes than the
\* ceiling, and a source longer than one chunk
ScenarioCalls ==
    \/ \E e \in Engines, recs \in {fiveBurlingtons, fiveBurlingtonsShuffled},
          q \in {q_burlington_w, q_burli_w, q_Burlington_c_w} :
          Called(e, FALSE, FALSE, Source(0, r_Coos_Bay_OR, recs), q, 10)
    \/ \E e \in Engines :
          Called(e, FALSE, FALSE, Source(0, r_Coos_Bay_OR, <<r_Coos_Bay_OR>>), q_coos_b, 10)
    \/ \E e \in Engines, c \in BOOLEAN, recs \in {threeCodes, threeCodesReversed} :
          Called(e, c, FALSE, Source(0, r_Coos_Bay_OR, recs), q_0540, 10)
    \/ \E e \in Engines, lim \in {absoluteCeiling, absoluteCeiling + 1, absoluteCeiling + 5} :
          Called(e, FALSE, FALSE, Source(0, r_Coos_Bay_OR, manyCodesData), q_054, lim)
    \/ \E recs \in {<<r_Burlington_VT>>, <<r_Burlington_VT, r_Burlington_WI, r_Burlington_WA>>} :
          Called("optimized", FALSE, FALSE, Source(chunkSize, r_Coos_Bay_OR, recs), q_BURL, 2)
    \/ \E e \in Engines, q \in {q_lington_c_w, q_burlington_c_v},
          recs \in {<<r_Burlington_WI>>, <<r_South_Burlington_VT, r_Burlington_VT>>} :
          Called(e, FALSE, FALSE, Source(0, r_Coos_Bay_OR, recs), q, 10)
    \/ \E lim \in {0, -1}, recs \in {fiveBurlingtons, threeCodes}, q \in {q_BURL, q_0540} :
          Called("optimized", FALSE, FALSE, Source(0, r_Coos_Bay_OR, recs), q, lim)
    \/ \E q \in {q_burlington_comma, q_bur_sp_comma_sp, q_comma_bur},
          recs \in {<<r_Burlington_VT>>, <<r_Winooski_VT, r_Burlington_WI>>} :
          Called("optimized", FALSE, FALSE, Source(0, r_Coos_Bay_OR, recs), q, 10)

\* A null source, a source with a field of the wrong type, and sources
\* with records that lack a field
FaultyCalls ==
    \/ \E q \in {q_BURL, q_a_sp_sp} :
          Called("optimized", FALSE, FALSE, NullSource, q, 10)
    \/ \E recs \in {<<r_numeric_zipcode>>, <<r_Burlington_VT, r_numeric_zipcode>>} :
          Called("optimized", FALSE, FALSE, Source(0, r_Coos_Bay_OR, recs), q_0540, 10)
    \/ Called("optimized", FALSE, TRUE, Source(0, r_Coos_Bay_OR, <<r_Mexicali, r_numeric_state>>),
               q_calient, 10)
    \/ \E q \in {q_BURL, q_0540, q_Burlington_c_w},
          recs \in {<<r_Burlington_no_state_code, r_Burlington_WI>>,
                    <<r_VT_no_place, r_Burlington_VT_02>>,
                    <<r_Burlington_VT, r_VT_empty_place>>,
                    <<r_Burlington_WI_no_zipcode, r_Burlington_WI>>} :
          Called("optimized", FALSE, FALSE, Source(0, r_Coos_Bay_OR, recs), q, 10)
    \/ \E q \in {q_cal, q_200},
          recs \in {<<r_Mexicali_no_state, r_Aguascalientes>>,
                    <<r_Baja_California_no_state_code, r_Mexicali>>} :
          Called("optimized", FALSE, TRUE, Source(0, r_Coos_Bay_OR, recs), q, 10)

Init == GeneralCalls \/ ScenarioCalls \/ FaultyCalls

(***************************************************************************)
(* performAutocompleteOptimized, one step per loop iteration               *)
(***************************************************************************)
\* The conditions of the loops and of the break
OuterLoopCondition == chunkStart < dataLength(data) /\ chunkStart < maxItemsToProcess
InnerLoopCondition_NoCap == i < chunkEnd - chunkStart
InnerLoopCondition == i < chunkEnd - chunkStart /\ Len(matches) < maxLimit
BreakCondition == Len(matches) >= maxLimit \/ itemsProcessed >= maxItemsToProcess
CurrentItemThrows == itemThrows(dataAt(data, chunkStart + i), query, isMexico)

\* The statement the function is at can run: the conditions under which
\* the steps below are taken, one line per step
CanStep ==
    \/ pc = "start" /\ engine = "optimized" /\ Len(queryLower) < 2
    \/ pc = "start" /\ engine = "optimized" /\ ~(Len(queryLower) < 2)
    \/ pc = "chunk" /\ data.null
    \/ pc = "chunk" /\ ~data.null /\ OuterLoopCondition
    \/ pc = "chunk" /\ ~data.null /\ ~OuterLoopCondition
    \/ pc = "item" /\ InnerLoopCondition /\ ~CurrentItemThrows
    \/ pc = "item" /\ InnerLoopCondition /\ CurrentItemThrows
    \/ pc = "item" /\ ~InnerLoopCondition /\ BreakCondition
    \/ pc = "item" /\ ~InnerLoopCondition /\ ~BreakCondition
    \/ pc = "sort"

\* if (queryLower.length < 2) return []
EarlyReturn ==
    /\ pc = "start" /\ engine = "optimized"
    /\ Len(queryLower) < 2
    /\ result' = <<>>
    /\ pc' = "done"
    /\ UNCHANGED <<args, outer, chunkStart, chunkEnd, i, matches, seenItems, itemsProcessed>>

BeginScan ==
    /\ pc = "start" /\ engine = "optimized"
    /\ ~(Len(queryLower) < 2)
    /\ pc' = "chunk"
    /\ UNCHANGED <<args, outer, chunkStart, chunkEnd, i, matches, seenItems, itemsProcessed, result>>

\* data.length of a null source: TypeError
NextChunkThrows ==
    /\ pc = "chunk"
    /\ data.null
    /\ pc' = "thrown"
    /\ UNCHANGED <<args, outer, chunkStart, chunkEnd, i, matches, seenItems, itemsProcessed, result>>

\* the outer for: chunkStart < data.length && chunkStart < maxItemsToProcess
NextChunk ==
    /\ pc = "chunk"
    /\ ~data.null
    /\ OuterLoopCondition
    /\ chunkEnd' = Min(Min(chunkStart + chunkSize, dataLength(data)), maxItemsToProcess)
    /\ i' = 0
    /\ pc' = "item"
    /\ UNCHANGED <<args, outer, chunkStart, matches, seenItems, itemsProcessed, result>>

ScanFinished ==
    /\ pc = "chunk"
    /\ ~data.null
    /\ ~OuterLoopCondition
    /\ pc' = "sort"
    /\ UNCHANGED <<args, outer, chunkStart, chunkEnd, i, matches, seenItems, itemsProcessed, result>>

\* the inner for: i < chunk.length && matches.length < maxLimit
ProcessItem ==
    /\ pc = "item"
    /\ InnerLoopCondition
    /\ ~CurrentItemThrows
    /\ LET kept == scanItem(dataAt(data, chunkStart + i), matches, seenItems,
                            query, isCanada, isMexico)
       IN  /\ matches' = kept.matches
           /\ seenItems' = kept.seenItems
    /\ itemsProcessed' = itemsProcessed + 1
    /\ i' = i + 1
    /\ UNCHANGED <<args, outer, pc, chunkStart, chunkEnd, result>>

\* itemsProcessed++, then toLowerCase() of a field that is not a string
ProcessItemThrows ==
    /\ pc = "item"
    /\ InnerLoopCondition
    /\ CurrentItemThrows
    /\ itemsProcessed' = itemsProcessed + 1
    /\ pc' = "thrown"
    /\ UNCHANGED <<args, outer, chunkStart, chunkEnd, i, matches, seenItems, result>>

\* if (matches.length >= maxLimit || itemsProcessed >= maxItemsToProcess) break
ChunkBreak ==
    /\ pc = "item"
    /\ ~InnerLoopCondition
    /\ BreakCondition
    /\ pc' = "sort"
    /\ UNCHANGED <<args, outer, chunkStart, chunkEnd, i, matches, seenItems, itemsProcessed, result>>

ChunkAdvance ==
    /\ pc = "item"
    /\ ~InnerLoopCondition
    /\ ~BreakCondition
    /\ chunkStart' = chunkStart + chunkSize
    /\ pc' = "chunk"
    /\ UNCHANGED <<args, outer, chunkEnd, i, matches, seenItems, itemsProcessed, result>>

\* matches.sort(...); return matches
SortAndReturn ==
    /\ pc = "sort"
    /\ result' = sortMatches(matches, queryLower)
    /\ pc' = "done"
    /\ UNCHANGED <<args, outer, chunkStart, chunkEnd, i, matches, seenItems, itemsProcessed>>

(***************************************************************************)
(* The D1 engines: one query, one step                                     *)
(***************************************************************************)
USQuery ==
    /\ pc = "start" /\ engine = "us"
    /\ \E r \in performUSAutocompleteQuery(data, query, limit) : result' = r
    /\ pc' = "done"
    /\ UNCHANGED <<args, outer, chunkStart, chunkEnd, i, matches, seenItems, itemsProcessed>>

CAQuery ==
    /\ pc = "start" /\ engine = "ca"
    /\ \E r \in performCAAutocompleteQuery(data, query, limit) : result' = r
    /\ pc' = "done"
    /\ UNCHANGED <<args, outer, chunkStart, chunkEnd, i, matches, seenItems, itemsProcessed>>

\* a step of performAutocompleteOptimized
ScanStep ==
    \/ EarlyReturn
    \/ BeginScan
    \/ NextChunkThrows
    \/ NextChunk
    \/ ScanFinished
    \/ ProcessItem
    \/ ProcessItemThrows
    \/ ChunkBreak
    \/ ChunkAdvance
    \/ SortAndReturn

Next ==
    \/ ScanStep
    \/ USQuery
    \/ CAQuery

Spec == Init /\ [][Next]_vars

(***************************************************************************)
(* Sources around the scan ceiling: a match just before position           *)
(* maxItemsToProcess, matches only at and after it, and no match in a      *)
(* source longer than the ceiling.                                        *)
(***************************************************************************)
BudgetCalls ==
    \/ Called("optimized", FALSE, FALSE,
              Source(maxItemsToProcess, r_Coos_Bay_OR, <<r_Burlington_VT, r_Burlington_WI>>),
              q_BURL, 2)
    \/ Called("optimized", FALSE, FALSE,
              Source(maxItemsToProcess - 1, r_Coos_Bay_OR, <<r_Burlington_VT, r_Burlington_WI>>),
              q_BURL, 2)
    \/ Called("optimized", FALSE, FALSE,
              Source(maxItemsToProcess + chunkSize, r_Coos_Bay_OR, <<>>), q_BURL, 2)

InitBudget == BudgetCalls \/ ScenarioCalls \/ FaultyCalls

SpecBudget == InitBudget /\ [][Next]_vars

(***************************************************************************)
(* The Worker.  fetch routes a request by the start of its pathname; a     *)
(* request is its method, its pathname and its search parameters, Absent   *)
(* for a parameter the URL does not have.  The Worker serves the requests  *)
(* one after the other; the request being served is the first one without  *)
(* a response.                                                             *)
(***************************************************************************)
p_api_autocomplete_us == <<"/", "a", "p", "i", "/", "a", "u", "t", "o", "c", "o", "m", "p", "l", "e", "t", "e", "/", "u", "s">>
p_api_autocomplete_ca == <<"/", "a", "p", "i", "/", "a", "u", "t", "o", "c", "o", "m", "p", "l", "e", "t", "e", "/", "c", "a">>
p_api_autocomplete_mx == <<"/", "a", "p", "i", "/", "a", "u", "t", "o", "c", "o", "m", "p", "l", "e", "t", "e", "/", "m", "x">>
p_api_us == <<"/", "a", "p", "i", "/", "u", "s">>
p_api_ca == <<"/", "a", "p", "i", "/", "c", "a">>
p_health == <<"/", "h", "e", "a", "l", "t", "h">>
p_root == <<"/">>
p_api_invalid == <<"/", "a", "p", "i", "/", "i", "n", "v", "a", "l", "i", "d">>
p_api_usa == <<"/", "a", "p", "i", "/", "u", "s", "a">>
p_API_US_uc == <<"/", "A", "P", "I", "/", "U", "S">>
p_api_autocomplete_slash == <<"/", "a", "p", "i", "/", "a", "u", "t", "o", "c", "o", "m", "p", "l", "e", "t", "e", "/">>
p_api_autocomplete_xx == <<"/", "a", "p", "i", "/", "a", "u", "t", "o", "c", "o", "m", "p", "l", "e", "t", "e", "/", "x", "x">>
p_api_autocomplete_usa == <<"/", "a", "p", "i", "/", "a", "u", "t", "o", "c", "o", "m", "p", "l", "e", "t", "e", "/", "u", "s", "a">>

Req(method, pathname, q, lim, city, state) ==
    [method |-> method, pathname |-> pathname, q |-> q, limit |-> lim,
     city |-> city, state |-> state]

\* a response, and the function that returned it
Response(by, status, body) == [by |-> by, status |-> status, body |-> body]

handlerOf_ApiPrefix(r) ==
    IF r.method = "OPTIONS" THEN "handleCORS"
    ELSE IF startsWith(r.pathname, p_api_autocomplete_us) THEN "handleUSAutocomplete"
    ELSE IF startsWith(r.pathname, p_api_autocomplete_ca) THEN "handleCAAutocomplete"
    ELSE IF startsWith(r.pathname, p_api_autocomplete_mx) THEN "handleMXAutocomplete"
    ELSE IF startsWith(r.pathname, <<"/", "a", "p", "i">>) THEN "handleUSLookup"
    ELSE IF startsWith(r.pathname, p_api_ca) THEN "handleCALookup"
    ELSE "fetch"

\* the routing of fetch; "fetch" when fetch itself returns the default response
handlerOf(r) ==
    IF r.method = "OPTIONS" THEN "handleCORS"
    ELSE IF startsWith(r.pathname, p_api_autocomplete_us) THEN "handleUSAutocomplete"
    ELSE IF startsWith(r.pathname, p_api_autocomplete_ca) THEN "handleCAAutocomplete"
    ELSE IF startsWith(r.pathname, p_api_autocomplete_mx) THEN "handleMXAutocomplete"
    ELSE IF startsWith(r.pathname, p_api_us) THEN "handleUSLookup"
    ELSE IF startsWith(r.pathname, p_api_ca) THEN "handleCALookup"
    ELSE "fetch"

\* parseInt: leading whitespace, an optional sign, then decimal digits up
\* to the first other character; NaN when there is no digit (and for null)
RECURSIVE leadingDigits(_)
leadingDigits(s) ==
    IF s # <<>> /\ IsDigit(Head(s)) THEN <<Head(s)>> \o leadingDigits(Tail(s)) ELSE <<>>

RECURSIVE decimalValue(_)
decimalValue(ds) ==
    IF ds = <<>> THEN 0 ELSE 10 * decimalValue(SubSeq(ds, 1, Len(ds) - 1)) + DigitValue[ds[Len(ds)]]

parseInt(p) ==
    LET t == IF p = Absent THEN <<>> ELSE trimStart(p)
        signed == t # <<>> /\ Head(t) \in {"-", "+"}
        ds == leadingDigits(IF signed THEN Tail(t) ELSE t)
    IN  [nan |-> ds = <<>>,
         value |-> IF signed /\ Head(t) = "-" THEN 0 - decimalValue(ds) ELSE decimalValue(ds)]

\* parseInt(url.searchParams.get('limit')) || 10
parsedLimit(p) == IF parseInt(p).nan \/ parseInt(p).value = 0 THEN 10 ELSE parseInt(p).value

\* Math.min(limit, 25)
cappedLimitOf(p) == Min(parsedLimit(p), 25)

queryRejected_BelowTwo(q) == q = Absent \/ q = <<>> \/ Len(q) < 2

\* !query || query.length < 3
queryRejected(q) == q = Absent \/ q = <<>> \/ Len(q) < 3

lookupRejected_CityOnly(r) == r.city = Absent \/ r.city = <<>>

\* !city || !state
lookupRejected(r) == r.city = Absent \/ r.city = <<>> \/ r.state = Absent \/ r.state = <<>>

HasRequest == Len(served) < Len(requests)
Request == requests[Len(served) + 1]
Handler == IF HasRequest THEN handlerOf(Request) ELSE "none"

\* return new Response(...)
Responds(status, body) ==
    /\ served' = Append(served, Response(Handler, status, body))
    /\ pc' = "idle"

FreshLocals_SeenItemsKept ==
    /\ chunkStart' = 0
    /\ chunkEnd' = 0
    /\ i' = 0
    /\ matches' = <<>>
    /\ UNCHANGED seenItems
    /\ itemsProcessed' = 0
    /\ result' = <<>>

\* the locals of a fresh call of the engine
FreshLocals ==
    /\ chunkStart' = 0
    /\ chunkEnd' = 0
    /\ i' = 0
    /\ matches' = <<>>
    /\ seenItems' = {}
    /\ itemsProcessed' = 0
    /\ result' = <<>>

locals == <<chunkStart, chunkEnd, i, matches, seenItems, itemsProcessed, result>>
wrapper == <<timer, deadline, promise>>

\* handleCORS
Preflight ==
    /\ pc = "idle" /\ Handler = "handleCORS"
    /\ Responds(204, [empty |-> TRUE])
    /\ UNCHANGED <<args, locals, requests, env, accessed, wrapper, earlier>>

available_endpoints ==
    <<"/api/us?city=<city>&state=<state>",
      "/api/ca?city=<city>&province=<province>",
      "/api/autocomplete/us?q=<query>&limit=<limit>",
      "/api/autocomplete/ca?q=<query>&limit=<limit>",
      "/api/autocomplete/mx?q=<query>&limit=<limit>">>

\* the default response of fetch
NotFound ==
    /\ pc = "idle" /\ Handler = "fetch"
    /\ Responds(404, [error |-> "Not found", available_endpoints |-> available_endpoints])
    /\ UNCHANGED <<args, locals, requests, env, accessed, wrapper, earlier>>

AutocompleteHandlers == {"handleUSAutocomplete", "handleCAAutocomplete", "handleMXAutocomplete"}

\* the validation at the head of the three autocomplete handlers
AutocompleteRejects ==
    /\ pc = "idle" /\ Handler \in AutocompleteHandlers
    /\ queryRejected(Request.q)
    /\ Responds(400, [error |-> "Query parameter \"q\" is required and must be at least 3 characters"])
    /\ UNCHANGED <<args, locals, requests, env, accessed, wrapper, earlier>>

\* if (!env.DB) throw, caught: status 500
D1AutocompleteFails ==
    /\ pc = "idle" /\ Handler \in {"handleUSAutocomplete", "handleCAAutocomplete"}
    /\ ~queryRejected(Request.q)
    /\ env.db = "absent"
    /\ Responds(500, [error |-> IF Handler = "handleUSAutocomplete"
                                 THEN "Failed to query zipcode data"
                                 ELSE "Failed to query postal code data"])
    /\ UNCHANGED <<args, locals, requests, env, accessed, wrapper, earlier>>

\* await performUSAutocompleteQuery(env.DB, query, cappedLimit), and the
\* same for Canada
D1AutocompleteQueries ==
    /\ pc = "idle" /\ Handler \in {"handleUSAutocomplete", "handleCAAutocomplete"}
    /\ ~queryRejected(Request.q)
    /\ env.db = "bound"
    /\ engine' = IF Handler = "handleUSAutocomplete" THEN "us" ELSE "ca"
    /\ isCanada' = FALSE
    /\ isMexico' = FALSE
    /\ data' = env.table
    /\ query' = Request.q
    /\ limit' = cappedLimitOf(Request.limit)
    /\ accessed' = accessed \cup {"db"}
    /\ FreshLocals
    /\ pc' = "start"
    /\ UNCHANGED <<requests, env, served, wrapper, earlier>>

\* the status 200 response of handleUSAutocomplete and handleCAAutocomplete
D1AutocompleteResponds ==
    /\ pc = "done" /\ Handler \in {"handleUSAutocomplete", "handleCAAutocomplete"}
    /\ Responds(200, [query |-> query, results |-> result, count |-> Len(result)])
    /\ UNCHANGED <<args, locals, requests, env, accessed, wrapper, earlier>>

\* handleMXAutocomplete: the validation passed; env.ZIP_DATA.get and
\* object.json(), with the inner catch.  zipcodesMX is `data`; undefined
\* and null are both NullSource
MXTriesBinding ==
    /\ pc = "idle" /\ Handler = "handleMXAutocomplete"
    /\ ~queryRejected(Request.q)
    /\ engine' = "optimized"
    /\ isCanada' = FALSE
    /\ isMexico' = TRUE
    /\ query' = Request.q
    /\ limit' = cappedLimitOf(Request.limit)
    /\ data' = IF env.r2 = "object" THEN env.r2json ELSE NullSource
    /\ accessed' = IF env.r2 = "absent" THEN accessed ELSE accessed \cup {"r2"}
    /\ pc' = "mx bound"
    /\ UNCHANGED <<locals, requests, env, served, wrapper, earlier>>

MXFallbackLoads_Always ==
    /\ pc = "mx bound"
    /\ env.public = "ok"
    /\ data' = env.publicjson
    /\ accessed' = accessed \cup {"public"}
    /\ pc' = "mx loaded"
    /\ UNCHANGED <<engine, isCanada, isMexico, query, limit, locals, requests, env, served,
                   wrapper, earlier>>

\* if (!zipcodesMX): fetch of the public URL, response.ok, response.json()
MXFallbackLoads ==
    /\ pc = "mx bound" /\ data.null
    /\ env.public = "ok"
    /\ data' = env.publicjson
    /\ accessed' = accessed \cup {"public"}
    /\ pc' = "mx loaded"
    /\ UNCHANGED <<engine, isCanada, isMexico, query, limit, locals, requests, env, served,
                   wrapper, earlier>>

MXFallbackFails_EmptyList ==
    /\ pc = "mx bound" /\ data.null
    /\ env.public # "ok"
    /\ accessed' = accessed \cup {"public"}
    /\ Responds(200, [query |-> query, results |-> <<>>, count |-> 0])
    /\ UNCHANGED <<args, locals, requests, env, wrapper, earlier>>

\* fetch rejects, or !response.ok: throw, caught by the outer catch
MXFallbackFails ==
    /\ pc = "mx bound" /\ data.null
    /\ env.public # "ok"
    /\ accessed' = accessed \cup {"public"}
    /\ Responds(500, [error |-> "Failed to load postal code data"])
    /\ UNCHANGED <<args, locals, requests, env, wrapper, earlier>>

MXBindingDelivered ==
    /\ pc = "mx bound" /\ ~data.null
    /\ pc' = "mx loaded"
    /\ UNCHANGED <<args, locals, outer>>

(***************************************************************************)
(* performAutocompleteWithTimeout.  The executor of the promise runs       *)
(* synchronously: it arms the timer, runs the whole scan, clears the timer *)
(* and resolves.  A timer callback runs in a later turn of the event loop, *)
(* when no JavaScript is on the stack, and only if the timer was not       *)
(* cleared.  The 8 seconds pass when the environment decides.              *)
(***************************************************************************)
\* resolve(v): the first call settles the promise, a later one does nothing
resolve(p, v) == IF p.state = "pending" THEN [state |-> "resolved", value |-> v] ELSE p

\* new Promise, setTimeout(..., 8000), then the call of performAutocompleteOptimized
WrapperArms ==
    /\ pc = "mx loaded"
    /\ promise' = Pending
    /\ timer' = "armed"
    /\ deadline' = "ahead"
    /\ FreshLocals
    /\ pc' = "start"
    /\ UNCHANGED <<args, requests, env, served, accessed, earlier>>

\* 8000 ms have passed since setTimeout
DeadlinePasses ==
    /\ timer = "armed" /\ deadline = "ahead"
    /\ deadline' = IF Ended THEN "passed after the scan" ELSE "passed during the scan"
    /\ UNCHANGED <<args, locals, pc, requests, env, served, accessed, timer, promise, earlier>>

\* clearTimeout(timeout); resolve(results)
WrapperResolves ==
    /\ pc = "done" /\ timer = "armed"
    /\ timer' = "cleared"
    /\ promise' = resolve(promise, result)
    /\ pc' = "settled"
    /\ UNCHANGED <<args, locals, requests, env, served, accessed, deadline, earlier>>

WrapperCatches_Rejects ==
    /\ pc = "thrown" /\ timer = "armed"
    /\ promise' = [state |-> "rejected", value |-> <<>>]
    /\ pc' = "settled"
    /\ UNCHANGED <<args, locals, requests, env, served, accessed, timer, deadline, earlier>>

\* catch (error) { clearTimeout(timeout); resolve([]) }
WrapperCatches ==
    /\ pc = "thrown" /\ timer = "armed"
    /\ timer' = "cleared"
    /\ promise' = resolve(promise, <<>>)
    /\ pc' = "settled"
    /\ UNCHANGED <<args, locals, requests, env, served, accessed, deadline, earlier>>

\* the turn of the event loop after the executor has returned: the callback
\* of a timer that is due and was not cleared runs, resolve([])
EventLoopTurn ==
    /\ pc = "settled"
    /\ IF timer = "armed" /\ deadline # "ahead"
       THEN timer' = "fired" /\ promise' = resolve(promise, <<>>)
       ELSE UNCHANGED <<timer, promise>>
    /\ pc' = "resumed"
    /\ UNCHANGED <<args, locals, requests, env, served, accessed, deadline, earlier>>

\* const results = await ...; the status 200 response of handleMXAutocomplete
MXResponds ==
    /\ pc = "resumed" /\ promise.state = "resolved"
    /\ Responds(200, [query |-> query, results |-> promise.value, count |-> Len(promise.value)])
    /\ UNCHANGED <<args, locals, requests, env, accessed, wrapper, earlier>>

(***************************************************************************)
(* handleUSLookup and handleCALookup: SELECT place, state_code, zipcode    *)
(* FROM ... WHERE LOWER(place) = LOWER(?) AND LOWER(state_code) = LOWER(?) *)
(* LIMIT 1, then first().  Without ORDER BY the row returned is the first  *)
(* matching row the scan of the table meets; the order of the scan is the  *)
(* order of the source.                                                    *)
(***************************************************************************)
LookupHandlers == {"handleUSLookup", "handleCALookup"}

\* LOWER(column) = LOWER(?): NULL equals nothing
sqlLowerEquals(column, param) == column # Absent /\ sqlLower(column) = sqlLower(param)

lookupMatches(row, city, state) ==
    sqlLowerEquals(row.place, city) /\ sqlLowerEquals(row.state_code, state)

\* stmt.bind(city, state).first(): the list of the row, empty for null
lookupFirst(table, city, state) ==
    LET hits == {k \in 0..(dataLength(table) - 1) : lookupMatches(dataAt(table, k), city, state)}
    IN  IF hits = {} THEN <<>>
        ELSE <<dataAt(table, CHOOSE k \in hits : \A j \in hits : k <= j)>>

\* the status 400 response at the head of the two lookup handlers
LookupRejects ==
    /\ pc = "idle" /\ Handler \in LookupHandlers
    /\ lookupRejected(Request)
    /\ Responds(400, [error |-> "Missing required parameters"])
    /\ UNCHANGED <<args, locals, requests, env, accessed, wrapper, earlier>>

\* if (!env.DB) throw, caught: status 500
LookupFails ==
    /\ pc = "idle" /\ Handler \in LookupHandlers
    /\ ~lookupRejected(Request)
    /\ env.db = "absent"
    /\ Responds(500, [error |-> IF Handler = "handleUSLookup"
                                 THEN "Failed to query zipcode data"
                                 ELSE "Failed to query postal code data"])
    /\ UNCHANGED <<args, locals, requests, env, accessed, wrapper, earlier>>

\* the query, then status 404 or status 200
LookupAnswers ==
    /\ pc = "idle" /\ Handler \in LookupHandlers
    /\ ~lookupRejected(Request)
    /\ env.db = "bound"
    /\ accessed' = accessed \cup {"db"}
    /\ LET first == lookupFirst(env.table, Request.city, Request.state)
       IN  IF first = <<>>
           THEN Responds(404, [error |-> "Not found"])
           ELSE IF Handler = "handleUSLookup"
           THEN Responds(200, [city |-> first[1].place, state |-> first[1].state_code,
                               zip |-> first[1].zipcode])
           ELSE Responds(200, [city |-> first[1].place, province |-> first[1].state_code,
                               postal_code |-> first[1].zipcode])
    /\ UNCHANGED <<args, locals, requests, env, wrapper, earlier>>

(***************************************************************************)
(* The Worker serving requests: one autocomplete request, or two lookup    *)
(* requests one after the other, under every state of the bindings.        *)
(***************************************************************************)
mexicoJson == Source(0, r_Coos_Bay_OR, <<r_Aguascalientes, r_Mexicali, r_AGUASCALIENTES_10>>)
mistypedJson == Source(0, r_Coos_Bay_OR, <<r_Mexicali, r_numeric_state>>)
JsonBodies == {mexicoJson, mistypedJson, NullSource}

WorkerTables ==
    {Source(0, r_Coos_Bay_OR, recs) :
        recs \in {<<>>, <<r_Burlington_WI>>, <<r_Montreal_QC>>,
                  <<r_Burlington_VT, r_Burlington_VT_02>>,
                  <<r_Burlington_VT_02, r_Burlington_VT, r_Burlington_WI>>}}

RoutedPaths ==
    {p_root, p_health, p_api_invalid, p_api_usa, p_API_US_uc, p_api_us, p_api_ca,
     p_api_autocomplete_slash, p_api_autocomplete_xx, p_api_autocomplete_usa,
     p_api_autocomplete_us, p_api_autocomplete_ca, p_api_autocomplete_mx}

QParameters == {Absent, <<>>, q_ag, q_Agu, q_cal, q_200, q_xyz, q_a_sp_sp, q_BURL, q_0540}
LimitParameters == {Absent, <<"1">>, <<"0">>, <<"-", "5">>, <<"a", "b", "c">>, <<"3", "0">>}
CityParameters == {Absent, <<>>, s_Burlington, s_burlington_lc, s_Montreal, s_MONTREAL_uc}
StateParameters == {Absent, <<>>, s_WI, s_wi_lc, s_VT, s_QC, s_qc_lc}

\* the Worker has just started: nothing served, the engine not yet called
WorkerStarts(reqs, e) ==
    /\ requests = reqs
    /\ env = e
    /\ served = <<>>
    /\ accessed = {}
    /\ timer = "none"
    /\ deadline = "ahead"
    /\ promise = Pending
    /\ earlier = <<>>
    /\ pc = "idle"
    /\ engine = "optimized" /\ isCanada = FALSE /\ isMexico = FALSE
    /\ data = NullSource /\ query = <<>> /\ limit = 0
    /\ chunkStart = 0 /\ chunkEnd = 0 /\ i = 0
    /\ matches = <<>> /\ seenItems = {} /\ itemsProcessed = 0 /\ result = <<>>

InitWorker ==
    \/ \E method \in {"GET", "POST", "OPTIONS"}, path \in RoutedPaths, db \in {"absent", "bound"} :
          WorkerStarts(<<Req(method, path, Absent, Absent, s_Burlington, s_WI)>>,
                       Env(db, Source(0, r_Coos_Bay_OR, <<r_Burlington_WI>>),
                           "absent", NullSource, "not ok", NullSource))
    \/ \E path \in {p_api_autocomplete_us, p_api_autocomplete_ca},
          q \in QParameters, lim \in LimitParameters,
          db \in {"absent", "bound"}, table \in WorkerTables :
          WorkerStarts(<<Req("GET", path, q, lim, Absent, Absent)>>,
                       Env(db, table, "absent", NullSource, "not ok", NullSource))
    \/ \E q \in QParameters, lim \in LimitParameters,
          r2 \in {"absent", "throws", "no object", "object"}, r2json \in JsonBodies,
          public \in {"ok", "not ok", "throws"}, publicjson \in JsonBodies :
          WorkerStarts(<<Req("GET", p_api_autocomplete_mx, q, lim, Absent, Absent)>>,
                       Env("absent", NullSource, r2, r2json, public, publicjson))
    \/ \E path \in {p_api_us, p_api_ca}, db \in {"absent", "bound"}, table \in WorkerTables,
          city1 \in CityParameters, state1 \in StateParameters,
          city2 \in CityParameters, state2 \in StateParameters :
          WorkerStarts(<<Req("GET", path, Absent, Absent, city1, state1),
                         Req("GET", path, Absent, Absent, city2, state2)>>,
                       Env(db, table, "absent", NullSource, "not ok", NullSource))

NextWorker ==
    \/ Preflight
    \/ NotFound
    \/ AutocompleteRejects
    \/ D1AutocompleteFails
    \/ D1AutocompleteQueries
    \/ D1AutocompleteResponds
    \/ MXTriesBinding
    \/ MXBindingDelivered
    \/ MXFallbackLoads
    \/ MXFallbackFails
    \/ WrapperArms
    \/ DeadlinePasses
    \/ WrapperResolves
    \/ WrapperCatches
    \/ EventLoopTurn
    \/ MXResponds
    \/ LookupRejects
    \/ LookupFails
    \/ LookupAnswers
    \/ ScanStep
    \/ USQuery
    \/ CAQuery

SpecWorker == InitWorker /\ [][NextWorker]_vars

(***************************************************************************)
(* performAutocompleteOptimized called a second time with the arguments of *)
(* the first call, once the first has returned.                            *)
(***************************************************************************)
CallAgain ==
    /\ pc = "done" /\ engine = "optimized"
    /\ earlier = <<>>
    /\ earlier' = <<result>>
    /\ FreshLocals
    /\ pc' = "start"
    /\ UNCHANGED <<args, requests, env, served, accessed, wrapper>>

InitTwice ==
    /\ GeneralCallsUpTo(MaxData - 1) \/ ScenarioCalls \/ FaultyCalls
    /\ engine = "optimized"

NextTwice == ScanStep \/ CallAgain

SpecTwice == InitTwice /\ [][NextTwice]_vars

(***************************************************************************)
(* The value of a returned result submitted as the query of a new call     *)
(* over the same source, in the same mode, with the largest limit the      *)
(* function honours.                                                       *)
(***************************************************************************)
Resubmit ==
    /\ pc = "done" /\ engine = "optimized"
    /\ earlier = <<>>
    /\ \E k \in 1..Len(result) : query' = result[k].value
    /\ limit' = absoluteCeiling
    /\ earlier' = <<result>>
    /\ FreshLocals
    /\ pc' = "start"
    /\ UNCHANGED <<engine, isCanada, isMexico, data, requests, env, served, accessed, wrapper>>

NextRoundTrip == ScanStep \/ Resubmit

SpecRoundTrip == InitTwice /\ [][NextRoundTrip]_vars

(***************************************************************************)
(* matchesWithWordBoundary of the earlier engine (performAutocomplete)     *)
(***************************************************************************)
matchesWithWordBoundary(fullName, q) ==
    LET queryWords == splitWhitespace(q)
        nameWords == splitWhitespace(fullName)
    IN  \A k \in 1..Len(queryWords) :
            /\ ~(k > Len(nameWords))
            /\ startsWith(nameWords[k], queryWords[k])

(***************************************************************************)
(* matchesWithWordBoundary run on its own, one step per iteration of its   *)
(* loop.  fullName is the place of the single record of `data`, the query  *)
(* is `query`, `i` is the loop index and the value returned is the single  *)
(* element of `result`.                                                    *)
(***************************************************************************)
s_coos_bay == <<"c", "o", "o", "s", " ", "b", "a", "y">>
s_coos_2sp_bay == <<"c", "o", "o", "s", " ", " ", "b", "a", "y">>
s_sp_coos_bay == <<" ", "c", "o", "o", "s", " ", "b", "a", "y">>
s_coos_bay_sp == <<"c", "o", "o", "s", " ", "b", "a", "y", " ">>
s_coos == <<"c", "o", "o", "s">>
s_coos_sp == <<"c", "o", "o", "s", " ">>
s_sp_coos == <<" ", "c", "o", "o", "s">>
s_bay == <<"b", "a", "y">>
s_coos_b == <<"c", "o", "o", "s", " ", "b">>
s_coos_3sp_b == <<"c", "o", "o", "s", " ", " ", " ", "b">>
s_co_ba == <<"c", "o", " ", "b", "a">>
s_coos_bay_x == <<"c", "o", "o", "s", " ", "b", "a", "y", " ", "x">>
s_coos_bayou == <<"c", "o", "o", "s", " ", "b", "a", "y", "o", "u">>
s_oos_b == <<"o", "o", "s", " ", "b">>
s_sp == <<" ">>

FullNames == {s_coos_bay, s_coos_2sp_bay, s_sp_coos_bay, s_coos_bay_sp, s_coos, s_coos_sp,
              s_bay, <<>>, s_sp, s_coos_bayou}
WordQueries == {s_coos_b, s_coos_3sp_b, s_co_ba, s_coos, s_coos_sp, s_sp_coos, s_bay,
                s_coos_bay, s_coos_bay_x, s_coos_bayou, s_oos_b, <<>>, s_sp}

WordBoundaryCalls ==
    \E f \in FullNames, q \in WordQueries :
        Called("matchesWithWordBoundary", FALSE, FALSE,
               Source(0, r_Coos_Bay_OR, <<Rec(Absent, f, Absent, Absent)>>), q, 0)

fullName == data.recs[1].place
queryWords == splitWhitespace(query)
nameWords == splitWhitespace(fullName)

\* the loop ended: return true
WordsReturnTrue ==
    /\ pc = "start" /\ engine = "matchesWithWordBoundary"
    /\ ~(i < Len(queryWords))
    /\ result' = <<TRUE>>
    /\ pc' = "done"
    /\ UNCHANGED <<args, outer, chunkStart, chunkEnd, i, matches, seenItems, itemsProcessed>>

WordsMoreThanName_ReturnsTrue ==
    /\ pc = "start" /\ engine = "matchesWithWordBoundary"
    /\ i < Len(queryWords)
    /\ i >= Len(nameWords)
    /\ result' = <<TRUE>>
    /\ pc' = "done"
    /\ UNCHANGED <<args, outer, chunkStart, chunkEnd, i, matches, seenItems, itemsProcessed>>

\* if (i >= nameWords.length) return false
WordsMoreThanName ==
    /\ pc = "start" /\ engine = "matchesWithWordBoundary"
    /\ i < Len(queryWords)
    /\ i >= Len(nameWords)
    /\ result' = <<FALSE>>
    /\ pc' = "done"
    /\ UNCHANGED <<args, outer, chunkStart, chunkEnd, i, matches, seenItems, itemsProcessed>>

\* if (!nameWords[i].startsWith(queryWords[i])) return false
WordsNotPrefix ==
    /\ pc = "start" /\ engine = "matchesWithWordBoundary"
    /\ i < Len(queryWords)
    /\ ~(i >= Len(nameWords))
    /\ ~startsWith(nameWords[i + 1], queryWords[i + 1])
    /\ result' = <<FALSE>>
    /\ pc' = "done"
    /\ UNCHANGED <<args, outer, chunkStart, chunkEnd, i, matches, seenItems, itemsProcessed>>

\* i++
WordsNext ==
    /\ pc = "start" /\ engine = "matchesWithWordBoundary"
    /\ i < Len(queryWords)
    /\ ~(i >= Len(nameWords))
    /\ startsWith(nameWords[i + 1], queryWords[i + 1])
    /\ i' = i + 1
    /\ UNCHANGED <<args, outer, pc, chunkStart, chunkEnd, matches, seenItems, itemsProcessed, result>>

NextWordBoundary ==
    \/ WordsReturnTrue
    \/ WordsMoreThanName
    \/ WordsNotPrefix
    \/ WordsNext

SpecWordBoundary == WordBoundaryCalls /\ [][NextWordBoundary]_vars

(***************************************************************************)
(* Vocabulary of the properties                                            *)
(***************************************************************************)
Done == pc = "done"
Optimized == engine = "optimized"
Sql == engine \in {"us", "ca"}

\* the query as the claims read it: lowercased and trimmed
TrimmedQuery == trim(toLowerCase(query))
TrimmedBeginsWithDigit == TrimmedQuery # <<>> /\ TrimmedQuery[1] \in DigitSet
BeginsWithDigit == query # <<>> /\ query[1] \in DigitSet
CommaFree == \A k \in 1..Len(query) : query[k] # ","

\* the parts of a query "c, r"
QueryPieces == split(TrimmedQuery, ",")
CommaQuery == Len(QueryPieces) >= 2 /\ trim(QueryPieces[1]) # <<>> /\ trim(QueryPieces[2]) # <<>>
RegionPart == trim(QueryPieces[2])

Records == {dataAt(data, k) : k \in 0..(dataLength(data) - 1)}
Displays == [k \in 1..Len(result) |-> result[k].display]
Codes == [k \in 1..Len(result) |-> result[k].zipcode]
Lower(f) == toLowerCase(orEmpty(f))

\* the scan met fewer distinct matches than it may return and saw every record
NotCapped == Len(result) < Min(limit, 25) /\ dataLength(data) <= 50000

\* position of the first record of the source with the given code
FirstWithCode(z) ==
    CHOOSE k \in 0..(dataLength(data) - 1) :
        /\ dataAt(data, k).zipcode = z
        /\ \A j \in 0..(k - 1) : dataAt(data, j).zipcode # z

CityLine(city, region) == city \o <<",", " ">> \o region

(***************************************************************************)
(* C1: for a query of at least 3 characters and a requested limit of at    *)
(* least 1, performAutocompleteOptimized returns at most min(limit, 25)    *)
(* results (and never holds more than that many in `matches`).             *)
(***************************************************************************)
C1_AtMostLimit ==
    (Optimized /\ Len(query) >= 3 /\ limit >= 1) =>
        /\ Len(matches) <= Min(limit, 25)
        /\ Len(result) <= Min(limit, 25)

\* a call asking for more than 25 over a source with more than 25 distinct
\* matching codes has returned 25
C1_Witness ==
    /\ Done /\ Optimized
    /\ limit > 25
    /\ Cardinality({r.zipcode : r \in {x \in Records : startsWith(Lower(x.zipcode), TrimmedQuery)}}) > 25
    /\ Len(result) = 25

(***************************************************************************)
(* C2: the comma-free query "burlington w" over the five Burlington        *)
(* records returns exactly "Burlington, WA", "Burlington, WI",             *)
(* "Burlington, WV", "Burlington, WY", in that order.                      *)
(***************************************************************************)
C2_PartialRegionWithoutComma ==
    (/\ Done
     /\ query = q_burlington_w
     /\ data.pad = 0 /\ data.recs \in {fiveBurlingtons, fiveBurlingtonsShuffled}
     /\ limit = 10)
    => Displays = <<CityLine(s_Burlington, s_WA), CityLine(s_Burlington, s_WI),
                    CityLine(s_Burlington, s_WV), CityLine(s_Burlington, s_WY)>>

(***************************************************************************)
(* C3: a comma-free city query matches a record if and only if it has no   *)
(* more words than the record's city name and each query word is a         *)
(* case-insensitive prefix of the city word at the same position: when the *)
(* response is not cut by the limit, the cities returned are exactly the   *)
(* cities of the records that satisfy the rule.                            *)
(***************************************************************************)
WordRule(city, q) ==
    LET qw == splitWhitespace(q)
        cw == splitWhitespace(toLowerCase(city))
    IN  Len(qw) <= Len(cw) /\ \A k \in 1..Len(qw) : startsWith(cw[k], qw[k])

C3_WordBoundaryRule ==
    (/\ Done /\ Optimized /\ ~isMexico
     /\ CommaFree /\ ~TrimmedBeginsWithDigit /\ Len(TrimmedQuery) >= 2
     /\ NotCapped)
    => {<<Lower(result[k].city), Lower(result[k].state)>> : k \in 1..Len(result)}
       = {<<Lower(r.place), Lower(r.state_code)>> :
              r \in {x \in Records : WordRule(orEmpty(x.place), TrimmedQuery)}}

(***************************************************************************)
(* C4: the query "coos b" over the single record {Coos Bay, OR} returns    *)
(* exactly one result, of type city, for Coos Bay, OR.                     *)
(***************************************************************************)
C4_CoosBay ==
    (/\ Done
     /\ query = q_coos_b
     /\ data.pad = 0 /\ data.recs = <<r_Coos_Bay_OR>>
     /\ limit >= 1)
    => /\ Len(result) = 1
       /\ result[1].type = "city"
       /\ result[1].city = s_Coos_Bay
       /\ result[1].state = s_OR
       /\ result[1].display = CityLine(s_Coos_Bay, s_OR)

C4_Witness ==
    /\ Done /\ Optimized
    /\ query = q_coos_b
    /\ data.recs = <<r_Coos_Bay_OR>>
    /\ Len(result) = 1

(***************************************************************************)
(* C5: in one response of performAutocompleteOptimized, any two results of *)
(* type city differ in their (lowercased city, lowercased region code)     *)
(* pair.                                                                   *)
(***************************************************************************)
C5_CityPairsDistinct ==
    (Done /\ Optimized) =>
        \A a, b \in 1..Len(result) :
            (a # b /\ result[a].type = "city" /\ result[b].type = "city")
            => <<Lower(result[a].city), Lower(result[a].state)>>
               # <<Lower(result[b].city), Lower(result[b].state)>>

\* the source held the same city under two spellings and one result came back
C5_Witness ==
    /\ Done /\ Optimized
    /\ {r_Burlington_WI, r_burlington_wi} \subseteq Records
    /\ Cardinality({k \in 1..Len(result) :
            result[k].type = "city" /\ Lower(result[k].state) = s_wi_lc}) = 1
    /\ Len(result) < limit

(***************************************************************************)
(* C6: in one response of performAutocompleteOptimized to a postal-code    *)
(* query no two results have the same zipcode, and the result for a        *)
(* zipcode carries the place and state of the first record in scan order   *)
(* that has that zipcode.                                                  *)
(***************************************************************************)
C6_CodesDistinctFirstWins ==
    (Done /\ Optimized /\ BeginsWithDigit) =>
        \A a \in 1..Len(result) :
            /\ \A b \in 1..Len(result) : a # b => result[a].zipcode # result[b].zipcode
            /\ LET first == dataAt(data, FirstWithCode(result[a].zipcode))
               IN  /\ result[a].city = first.place
                   /\ result[a].state = (IF isMexico THEN first.state ELSE first.state_code)
                   /\ result[a].display =
                        template(first.zipcode) \o <<" ", "-", " ">> \o template(first.place)
                        \o <<",", " ">>
                        \o template(IF isMexico THEN first.state ELSE first.state_code)

\* two records with one code and different places were scanned, and the code
\* came back once
C6_Witness ==
    /\ Done /\ Optimized /\ BeginsWithDigit
    /\ \E j, k \in 0..(dataLength(data) - 1) :
          /\ j < k
          /\ dataAt(data, j).zipcode = dataAt(data, k).zipcode
          /\ dataAt(data, j).place # dataAt(data, k).place
          /\ \E a \in 1..Len(result) : result[a].zipcode = dataAt(data, j).zipcode
    /\ Len(result) < limit

(***************************************************************************)
(* C7: in one response of the US or Canada autocomplete to a postal-code   *)
(* query no two results have the same zipcode, also when the table holds   *)
(* several rows with that zipcode and different place or state_code.       *)
(***************************************************************************)
C7_SqlCodesDistinct ==
    (Done /\ Sql /\ BeginsWithDigit) =>
        \A a, b \in 1..Len(result) : a # b => result[a].zipcode # result[b].zipcode

(***************************************************************************)
(* C8: a query is handled in postal-code mode if and only if its trimmed   *)
(* form begins with a digit: exactly then its results are of type zipcode, *)
(* and a record whose code starts with the trimmed query is found (so      *)
(* " 0540" is answered as a postal-code query).                            *)
(***************************************************************************)
C8_PostalModeAfterTrim ==
    (Done /\ engine \in {"optimized", "us"} /\ Len(TrimmedQuery) >= 2) =>
        IF TrimmedBeginsWithDigit
        THEN /\ \A k \in 1..Len(result) : result[k].type = "zipcode"
             /\ (\E r \in Records : startsWith(Lower(r.zipcode), TrimmedQuery)) => result # <<>>
        ELSE \A k \in 1..Len(result) : result[k].type # "zipcode"

C10_RegionPrefix ==
    (Done /\ Optimized /\ ~isMexico /\ ~BeginsWithDigit /\ CommaQuery) =>
        \A k \in 1..Len(result) :
            /\ startsWith(Lower(result[k].state), RegionPart)
            /\ RegionPart = <<"w">> => result[k].state # s_NW

\* a source holding Burlington, NW and Burlington, WI answered "Burlington, w"
C10_Witness ==
    /\ Done /\ Optimized /\ ~isMexico /\ CommaQuery
    /\ RegionPart = <<"w">>
    /\ {r_Burlington_NW, r_Burlington_WI} \subseteq Records
    /\ \E k \in 1..Len(result) : result[k].state = s_WI

(***************************************************************************)
(* C11: with a comma query "c, r", both parts non-empty, the city part is  *)
(* matched by the word-boundary prefix rule of the comma-free city query:  *)
(* every returned city has, word for word, a word starting with the word   *)
(* of c at the same position, so "lington" does not return Burlington.     *)
(***************************************************************************)
CityPart == trim(QueryPieces[1])

C11_CommaCityWordBoundary ==
    (Done /\ Optimized /\ ~isMexico /\ ~BeginsWithDigit /\ CommaQuery) =>
        \A k \in 1..Len(result) : WordRule(result[k].city, CityPart)

(***************************************************************************)
(* C12: in the list performAutocompleteOptimized returns, no result whose  *)
(* lowercased display does not start with the trimmed lowercased query     *)
(* precedes one whose display does, and inside each of the two groups the  *)
(* displays are in ascending alphabetical order.                           *)
(***************************************************************************)
StartsWithQuery(k) == startsWith(toLowerCase(result[k].display), TrimmedQuery)

C12_PrefixGroupFirstThenAlphabetical ==
    (Done /\ Optimized) =>
        \A a, b \in 1..Len(result) :
            a < b =>
                /\ StartsWithQuery(b) => StartsWithQuery(a)
                /\ (StartsWithQuery(a) <=> StartsWithQuery(b))
                       => localeCompare(result[a].display, result[b].display) <= 0

\* "mex" answered with Mexico ahead of Ciudad de Mexico, which the alphabet
\* alone would put first, and two results in one group
C12_Witness ==
    /\ Done /\ Optimized /\ isMexico /\ query = q_mex
    /\ Len(result) >= 2
    /\ result[1].display = s_Mexico
    /\ result[2].display = s_Ciudad_de_Mexico
    /\ localeCompare(s_Ciudad_de_Mexico, s_Mexico) < 0
    /\ \E a, b \in 1..Len(matches) :
          a < b /\ localeCompare(matches[a].display, matches[b].display) > 0

(***************************************************************************)
(* C17: for a Mexico query that does not start with a digit (and keeps at  *)
(* least two characters after trimming), a record produces a result if and *)
(* only if its state name, lowercased, contains the trimmed lowercased     *)
(* query, and the response holds at most one result for each distinct      *)
(* lowercased state name.                                                  *)
(***************************************************************************)
StateContainsQuery(r) == includes(Lower(r.state), TrimmedQuery)

FirstRecords ==
    (IF data.pad > 0 THEN {data.padRec} ELSE {})
    \cup {data.recs[j] : j \in 1..Min(Len(data.recs), 50000 - data.pad)}

NoneOfTheFirstMatches ==
    \A r \in FirstRecords : scanItem(r, <<>>, {}, query, isCanada, isMexico).matches = <<>>

WellTyped ==
    /\ ~data.null
    /\ \A r \in {data.recs[j] : j \in 1..Len(data.recs)} \cup {data.padRec} :
          ~isNumber(r.zipcode) /\ ~isNumber(r.place) /\ ~isNumber(r.state_code) /\ ~isNumber(r.state)

ScanCeiling == Min(dataLength(data), maxItemsToProcess)

Variant ==
    IF Ended THEN 0
    ELSE IF pc = "sort" THEN 1
    ELSE (IF pc = "start" THEN 4 ELSE IF pc = "chunk" THEN 3 ELSE 2)
         + (ScanCeiling - itemsProcessed)
         + (ScanCeiling + chunkSize - chunkStart)

ScanWithinBudget ==
    /\ Optimized =>
          /\ itemsProcessed <= Min(dataLength(data), 50000)
          /\ pc = "item" => chunkStart + i <= 50000
          /\ (Done /\ NoneOfTheFirstMatches) => result = <<>>
          /\ pc = "thrown" => ~WellTyped
          /\ Ended \/ CanStep
    /\ Variant >= 0

C13_ScanEndsWithinBudget == []ScanWithinBudget /\ [][Variant' < Variant]_vars

\* a source of more than 50000 records whose only matches lie at and after
\* position 50000: 50000 records examined, the empty list returned
C13_Witness ==
    /\ Done /\ Optimized
    /\ data.pad = 50000 /\ data.recs = <<r_Burlington_VT, r_Burlington_WI>>
    /\ itemsProcessed = 50000
    /\ result = <<>>

(***************************************************************************)
(* C14: the 8-second timer of performAutocompleteWithTimeout is a ceiling  *)
(* on the scan: when the 8 seconds pass while the scan is still running,   *)
(* the promise resolves with the empty list, so the caller that resumes    *)
(* after such a call holds the empty list and not the scan's results.      *)
(***************************************************************************)
C14_TimerCutsTheScan ==
    (pc = "resumed" /\ deadline = "passed during the scan") => promise.value = <<>>

(***************************************************************************)
(* C15: performAutocompleteWithTimeout never rejects: whatever the data (a *)
(* null source, a field that is not a string), once the executor has       *)
(* returned the promise is resolved with a list and the timer is cleared,  *)
(* and a resolved promise keeps its value until the next call makes a new  *)
(* promise: the timeout callback never replaces the scan's result.         *)
(***************************************************************************)
IsResultList(v) ==
    /\ DOMAIN v = 1..Len(v)
    /\ \A k \in 1..Len(v) : v[k].type \in {"zipcode", "city", "state"}

PromiseSettledOnce ==
    /\ promise.state # "rejected"
    /\ pc \in {"settled", "resumed"} =>
          /\ promise.state = "resolved"
          /\ IsResultList(promise.value)
          /\ timer # "armed"
    /\ (pc \in {"settled", "resumed"} /\ result # <<>>) => promise.value = result

PromiseKeepsItsValue ==
    promise.state = "resolved" => (promise' = promise \/ (pc = "mx loaded" /\ promise' = Pending))

C15_WrapperNeverRejects == []PromiseSettledOnce /\ [][PromiseKeepsItsValue]_vars

\* calls that threw (null source, a state that is a number) and a call whose
\* deadline passed during a scan that found something
C15_Witness ==
    /\ pc = "resumed"
    /\ promise = [state |-> "resolved", value |-> <<>>]
    /\ data = mistypedJson
    /\ itemsProcessed = 2 /\ Len(matches) = 1
    /\ deadline = "passed during the scan"

(***************************************************************************)
(* C18: in handleMXAutocomplete, when the source cannot be obtained (the   *)
(* R2 binding is absent, throws or has no object, and the fetch of the     *)
(* public URL is not ok) the response has status 500 and no record was     *)
(* matched; when the source is obtained and nothing matches, the response  *)
(* has status 200 with an empty results list and count 0.                  *)
(***************************************************************************)
MXServed == Len(served) = 1 /\ handlerOf(requests[1]) = "handleMXAutocomplete"

BindingDelivers == env.r2 = "object" /\ ~env.r2json.null
SourceObtained == BindingDelivers \/ env.public = "ok"

\* no call of the engine was made: the timer was never armed, nothing scanned
NoMatchingPerformed == timer = "none" /\ itemsProcessed = 0 /\ matches = <<>>

C18_SourceFailureIsAnErrorEmptyIsNot ==
    (MXServed /\ ~queryRejected(requests[1].q)) =>
        /\ ~SourceObtained => (served[1].status = 500 /\ NoMatchingPerformed)
        /\ served[1].status = 500 => (~SourceObtained /\ NoMatchingPerformed)
        /\ (SourceObtained /\ matches = <<>>) =>
              /\ served[1].status = 200
              /\ served[1].body.results = <<>>
              /\ served[1].body.count = 0

\* "xyz" over a source the R2 binding delivered: three records scanned,
\* none matching
C18_Witness ==
    /\ MXServed
    /\ requests[1].q = q_xyz /\ BindingDelivers /\ data = mexicoJson
    /\ itemsProcessed = 3 /\ matches = <<>>
    /\ served[1].status = 200 /\ served[1].body.count = 0

(***************************************************************************)
(* C19: an autocomplete request (US, Canada or Mexico) whose q parameter   *)
(* is missing or shorter than 3 characters gets status 400, and neither    *)
(* the database nor the record source is accessed for it; a request whose  *)
(* q has 3 characters or more does not get status 400.                     *)
(***************************************************************************)
AutocompleteServed == Len(served) = 1 /\ handlerOf(requests[1]) \in AutocompleteHandlers

ShortOrMissing(q) == q = Absent \/ Len(q) < 3

C19_ShortQueryRejectedBeforeAnyAccess ==
    /\ (HasRequest /\ Handler \in AutocompleteHandlers /\ ShortOrMissing(Request.q))
          => (accessed = {} /\ pc = "idle")
    /\ AutocompleteServed =>
          IF ShortOrMissing(requests[1].q)
          THEN served[1].status = 400 /\ accessed = {} /\ NoMatchingPerformed
          ELSE served[1].status # 400

C19_Witness ==
    /\ AutocompleteServed
    /\ handlerOf(requests[1]) = "handleMXAutocomplete"
    /\ requests[1].q = q_ag
    /\ env.r2 = "object" /\ env.db = "absent"
    /\ served[1].status = 400

(***************************************************************************)
(* C20: the exact-match lookup is case-insensitive: two lookup requests    *)
(* whose city parameters differ only in the case of their letters, and     *)
(* whose state (province) parameters differ only in the case of their      *)
(* letters, get the same response from the same table.                     *)
(***************************************************************************)
LookupsServed ==
    /\ Len(requests) = 2 /\ Len(served) = 2
    /\ handlerOf(requests[1]) \in LookupHandlers

\* the two strings are equal once their letters are lowercased
CaseVariation(a, b) == a # Absent /\ b # Absent /\ toLowerCase(a) = toLowerCase(b)

SameResponse(a, b) == a.status = b.status /\ (a.status = 200 => a.body = b.body)

C20_LookupIgnoresCase ==
    (/\ LookupsServed
     /\ CaseVariation(requests[1].city, requests[2].city)
     /\ CaseVariation(requests[1].state, requests[2].state))
    => SameResponse(served[1], served[2])

(***************************************************************************)
(* C16: a second call of performAutocompleteOptimized with the record      *)
(* list, the query and the limit of the first returns the same results in  *)
(* the same order: the first call leaves nothing behind.                   *)
(***************************************************************************)
C16_SecondCallSameResults ==
    (Done /\ Optimized /\ Len(earlier) = 1) => result = earlier[1]

\* a second call that had records to deduplicate and results to sort
C16_Witness ==
    /\ Done /\ Optimized /\ Len(earlier) = 1
    /\ Len(result) >= 2
    /\ seenItems # {}
    /\ result # matches

(***************************************************************************)
(* C21.  A lookup request to /api/us or /api/ca without the city parameter *)
(* or without the state/province parameter, or with one of them empty,     *)
(* gets status 400 with the error "Missing required parameters", and       *)
(* serving it reads no data store: what has been accessed is the same      *)
(* before and after the response.                                          *)
(***************************************************************************)
LacksAParameter(r) == r.city \in {Absent, <<>>} \/ r.state \in {Absent, <<>>}

LookupRequest(r) == r.method = "GET" /\ r.pathname \in {p_api_us, p_api_ca}

MissingParametersAnswered ==
    \A k \in 1..Len(served) :
        (LookupRequest(requests[k]) /\ LacksAParameter(requests[k]))
            => /\ served[k].status = 400
               /\ served[k].body = [error |-> "Missing required parameters"]

NoAccessForMissingParameters ==
    (/\ Len(served') = Len(served) + 1
     /\ LookupRequest(requests[Len(served')])
     /\ LacksAParameter(requests[Len(served')]))
        => accessed' = accessed

C21_MissingParametersRejected ==
    []MissingParametersAnswered /\ [][NoAccessForMissingParameters]_vars

\* /api/us?city=Burlington over a bound table that has Burlington rows
C21_Witness ==
    /\ Len(served) >= 1
    /\ requests[1].pathname = p_api_us
    /\ requests[1].city = s_Burlington /\ requests[1].state = Absent
    /\ env.db = "bound" /\ env.table.recs = <<r_Burlington_WI>>
    /\ served[1].status = 400
    /\ accessed = {}

(***************************************************************************)
(* C22.  A request whose method is not OPTIONS and whose path begins with  *)
(* none of /api/autocomplete/us, /api/autocomplete/ca,                     *)
(* /api/autocomplete/mx, /api/us and /api/ca gets status 404 with the      *)
(* error "Not found", returned by fetch itself and by no handler, and      *)
(* serving it reads no data store.  No response to a path beginning with   *)
(* /api/autocomplete/ is returned by a lookup handler.                     *)
(***************************************************************************)
PathBeginsWith(path, prefix) ==
    /\ Len(path) >= Len(prefix)
    /\ \A k \in 1..Len(prefix) : path[k] = prefix[k]

RoutePrefixes ==
    {p_api_autocomplete_us, p_api_autocomplete_ca, p_api_autocomplete_mx, p_api_us, p_api_ca}

Unrouted(r) ==
    /\ r.method # "OPTIONS"
    /\ \A prefix \in RoutePrefixes : ~PathBeginsWith(r.pathname, prefix)

UnroutedGetsNotFound ==
    \A k \in 1..Len(served) :
        /\ Unrouted(requests[k])
              => /\ served[k].status = 404
                 /\ served[k].body.error = "Not found"
                 /\ served[k].by = "fetch"
        /\ PathBeginsWith(requests[k].pathname, p_api_autocomplete_slash)
              => served[k].by \notin {"handleUSLookup", "handleCALookup"}

UnroutedReadsNothing ==
    (Len(served') = Len(served) + 1 /\ Unrouted(requests[Len(served')]))
        => (accessed' = accessed /\ pc = "idle")

C22_UnroutedPathsGetNotFound ==
    []UnroutedGetsNotFound /\ [][UnroutedReadsNothing]_vars

\* GET /api/invalid while the table is bound and has rows
C22_Witness ==
    /\ Len(served) = 1
    /\ requests[1].method = "GET" /\ requests[1].pathname = p_api_invalid
    /\ env.db = "bound"
    /\ served[1].status = 404 /\ served[1].by = "fetch"
    /\ accessed = {}

(***************************************************************************)
(* C23.  When the query has a comma and the part before it or the part     *)
(* after it is empty after trimming (as in "burlington,"),                 *)
(* performAutocompleteOptimized falls back to a city query on what is      *)
(* left: every record whose lowercased city begins with the non-empty part *)
(* is among the results, when the scan was not cut short.                  *)
(***************************************************************************)
EmptyPartQuery ==
    /\ Len(QueryPieces) >= 2
    /\ trim(QueryPieces[1]) = <<>> \/ trim(QueryPieces[2]) = <<>>

NonEmptyPart ==
    IF trim(QueryPieces[1]) # <<>> THEN trim(QueryPieces[1]) ELSE trim(QueryPieces[2])

C23_EmptyPartFallsBackToCityQuery ==
    (/\ Done /\ Optimized /\ ~isMexico /\ ~BeginsWithDigit
     /\ EmptyPartQuery /\ NonEmptyPart # <<>> /\ Len(TrimmedQuery) >= 2
     /\ NotCapped)
        => \A r \in Records :
               startsWith(Lower(r.place), NonEmptyPart)
                   => \E k \in 1..Len(result) :
                          result[k].city = r.place /\ result[k].state = r.state_code

(***************************************************************************)
(* C24.  performAutocompleteOptimized examines no record once the number   *)
(* of accumulated results has reached min(limit, 25), and the results it   *)
(* returns are those of the first min(limit, 25) distinct matching keys    *)
(* in scan order among the first 50000 records, one result per key: the    *)
(* sort only reorders them.  A record matches as the mode of the query     *)
(* decides, for a query of at least two characters after trimming.         *)
(***************************************************************************)
ScannedPositions == 0..(Min(dataLength(data), 50000) - 1)

RecordMatches(r) ==
    /\ Len(TrimmedQuery) >= 2
    /\ IF BeginsWithDigit THEN zipcodeMatches(r, TrimmedQuery)
       ELSE IF isMexico THEN stateNameMatches(r, TrimmedQuery)
       ELSE IF CommaFree THEN simpleCityMatches(r, TrimmedQuery)
       ELSE /\ CommaQuery
            /\ commaCityMatches(r, TrimmedQuery)
            /\ commaStateMatches(r, TrimmedQuery)

KeyOfRecord(r) ==
    IF BeginsWithDigit THEN <<r.zipcode>>
    ELSE IF isMexico THEN <<Lower(r.state)>>
    ELSE <<Lower(r.place), Lower(r.state_code)>>

KeyOfResult(x) ==
    IF BeginsWithDigit THEN <<x.zipcode>>
    ELSE IF isMexico THEN <<Lower(x.state)>>
    ELSE <<Lower(x.city), Lower(x.state)>>

MatchingPositions == {k \in ScannedPositions : RecordMatches(dataAt(data, k))}

FirstOfItsKey ==
    {k \in MatchingPositions :
        \A j \in MatchingPositions :
            j < k => KeyOfRecord(dataAt(data, j)) # KeyOfRecord(dataAt(data, k))}

FirstKeys ==
    {k \in FirstOfItsKey : Cardinality({j \in FirstOfItsKey : j < k}) < Min(limit, 25)}

ReturnsTheFirstKeys ==
    (Done /\ Optimized) =>
        /\ {KeyOfResult(result[k]) : k \in 1..Len(result)}
              = {KeyOfRecord(dataAt(data, k)) : k \in FirstKeys}
        /\ Len(result) = Cardinality(FirstKeys)

ExaminesNothingOnceFull ==
    (Optimized /\ Len(matches) >= Min(limit, 25))
        => (itemsProcessed' = itemsProcessed /\ matches' = matches)

C24_StopsAtTheCappedLimit ==
    []ReturnsTheFirstKeys /\ [][ExaminesNothingOnceFull]_vars

\* three Burlingtons after a full chunk of other records, limit 2: the scan
\* stops at the second one and leaves the third unexamined
C24_Witness ==
    /\ Done /\ Optimized
    /\ limit = 2 /\ Len(result) = 2
    /\ data.pad = chunkSize /\ Len(data.recs) = 3
    /\ itemsProcessed = chunkSize + 2
    /\ Cardinality(FirstOfItsKey) = 3

(***************************************************************************)
(* C25.  When several records share one (city, region) key, compared       *)
(* without regard to case, performAutocompleteOptimized returns a single   *)
(* city result for the key, and that result carries the zipcode, the city  *)
(* and the state of the first such record in scan order.                   *)
(***************************************************************************)
CityKey(city, region) == <<Lower(city), Lower(region)>>

FirstWithCityKey(key) ==
    CHOOSE k \in ScannedPositions :
        /\ CityKey(dataAt(data, k).place, dataAt(data, k).state_code) = key
        /\ \A j \in 0..(k - 1) :
              CityKey(dataAt(data, j).place, dataAt(data, j).state_code) # key

C25_FirstRecordRepresentsItsKey ==
    (Done /\ Optimized /\ ~isMexico /\ ~BeginsWithDigit) =>
        \A a \in 1..Len(result) :
            LET key == CityKey(result[a].city, result[a].state)
                first == dataAt(data, FirstWithCityKey(key))
            IN  /\ \E k \in ScannedPositions :
                      CityKey(dataAt(data, k).place, dataAt(data, k).state_code) = key
                /\ result[a].zipcode = first.zipcode
                /\ result[a].city = first.place
                /\ result[a].state = first.state_code
                /\ \A b \in 1..Len(result) :
                      CityKey(result[b].city, result[b].state) = key => a = b

\* Burlington, VT listed with 05402 before 05401, then Burlington, WI: two
\* results, the one for VT carrying 05402, which is not the smallest code
C25_Witness ==
    /\ Done /\ Optimized /\ ~isMexico /\ ~BeginsWithDigit
    /\ data.recs = <<r_Burlington_VT_02, r_Burlington_VT, r_Burlington_WI>>
    /\ Len(result) = 2
    /\ \E a \in 1..2 : result[a].zipcode = s_05402 /\ result[a].state = s_VT

(***************************************************************************)
(* C26.  Whatever the limit parameter of the request (missing, not a       *)
(* number, zero, negative, above 25), the limit with which an autocomplete *)
(* handler enters the query or the match engine is an integer from 1 to    *)
(* 25.                                                                     *)
(***************************************************************************)
EngineEnteredByHandler ==
    /\ HasRequest
    /\ Handler \in {"handleUSAutocomplete", "handleCAAutocomplete", "handleMXAutocomplete"}
    /\ pc = "start"

C26_HandedLimitBetween1And25 ==
    EngineEnteredByHandler => limit \in 1..25

(***************************************************************************)
(* C27.  A record with a missing or empty field (state_code absent, place  *)
(* absent or empty, zipcode absent, state absent in a source that has      *)
(* states) is treated as non-matching by every strategy of                 *)
(* performAutocompleteOptimized and raises no error: the results over a    *)
(* source are the results over the same source without such records.       *)
(***************************************************************************)
Present(f) == f # Absent /\ f # <<>>

Complete(r) ==
    /\ Present(r.zipcode) /\ Present(r.place) /\ Present(r.state_code)
    /\ isMexico => Present(r.state)

RECURSIVE ScanOver(_, _, _)
ScanOver(recs, m, seen) ==
    IF recs = <<>> \/ Len(m) >= Min(limit, 25) THEN m
    ELSE LET kept == scanItem(Head(recs), m, seen, query, isCanada, isMexico)
         IN  ScanOver(Tail(recs), kept.matches, kept.seenItems)

ReturnedOver(recs) ==
    IF Len(TrimmedQuery) < 2 THEN <<>>
    ELSE sortMatches(ScanOver(recs, <<>>, {}), TrimmedQuery)

HasIncompleteRecord == \E k \in 1..Len(data.recs) : ~Complete(data.recs[k])

C27_IncompleteRecordsNeverMatch ==
    /\ (Optimized /\ HasIncompleteRecord /\ WellTyped) => pc # "thrown"
    /\ (Done /\ Optimized /\ ~data.null /\ data.pad = 0 /\ HasIncompleteRecord)
           => result = ReturnedOver(SelectSeq(data.recs, Complete))

(***************************************************************************)
(* C28.  handleMXAutocomplete tries the R2 binding first and fetches the   *)
(* public URL only when the binding has delivered no data; a failure of    *)
(* the binding alone gives no error response when the fetch of the public  *)
(* URL succeeds; matching starts only after one of the two has delivered,  *)
(* and runs over what was delivered.                                       *)
(*                                                                         *)
(* As first stated, the public URL is fetched only when the binding is     *)
(* absent, throws or returns no object: C28_PublicUrlOnlyWithoutObject.    *)
(* The binding can also return an object whose JSON content is null, and   *)
(* the public URL is fetched then too: C28_BindingFirstThenPublicUrl       *)
(* counts that case among those in which the binding delivers nothing.     *)
(***************************************************************************)
MXRequested ==
    /\ Len(requests) = 1
    /\ handlerOf(requests[1]) = "handleMXAutocomplete"
    /\ ~ShortOrMissing(requests[1].q)

PublicUrlFetched == "public" \in accessed
BindingTried == "r2" \in accessed
BindingReturnsNoObject == env.r2 \in {"absent", "throws", "no object"}

BindingFailureAloneIsNoError ==
    (Len(served) = 1 /\ ~BindingDelivers /\ env.public = "ok")
        => (served[1].status = 200 /\ PublicUrlFetched)

MatchingStartsAfterDelivery ==
    timer # "none" =>
        /\ SourceObtained
        /\ data = IF BindingDelivers THEN env.r2json ELSE env.publicjson

C28_PublicUrlOnlyWithoutObject ==
    MXRequested =>
        /\ PublicUrlFetched => BindingReturnsNoObject
        /\ PublicUrlFetched => (env.r2 = "absent" \/ BindingTried)
        /\ BindingFailureAloneIsNoError
        /\ MatchingStartsAfterDelivery

C28_BindingFirstThenPublicUrl ==
    MXRequested =>
        /\ PublicUrlFetched => ~BindingDelivers
        /\ PublicUrlFetched => (env.r2 = "absent" \/ BindingTried)
        /\ BindingFailureAloneIsNoError
        /\ MatchingStartsAfterDelivery

\* the binding throws, the public URL serves the records: status 200 with
\* the state found in them
C28_Witness ==
    /\ MXRequested /\ Len(served) = 1
    /\ env.r2 = "throws" /\ env.public = "ok" /\ env.publicjson = mexicoJson
    /\ accessed = {"r2", "public"}
    /\ served[1].status = 200 /\ served[1].body.count = 1
    /\ itemsProcessed > 0

(***************************************************************************)
(* C29.  Round trip of value: when the value of a result returned by       *)
(* performAutocompleteOptimized is submitted as the query over the same    *)
(* source, with a limit that does not cut the matches short, the list      *)
(* returned contains a result with that value.                             *)
(***************************************************************************)
Resubmitted == earlier # <<>> /\ \E k \in 1..Len(earlier[1]) : earlier[1][k].value = query

C29_ValueRoundTrip ==
    (Done /\ Optimized /\ Resubmitted /\ dataLength(data) <= 50000)
        => \E k \in 1..Len(result) : result[k].value = query

(***************************************************************************)
(* C30.  matchesWithWordBoundary(fullName, query) returns true if and only *)
(* if, both being split on runs of whitespace, the query has no more words *)
(* than fullName and every word of the query is a prefix of the word of    *)
(* fullName at the same index; the number of spaces in a run between two   *)
(* words does not change the value returned.                               *)
(*                                                                         *)
(* The words of a string are its maximal runs of characters that are not   *)
(* whitespace, with an empty word before a leading run of whitespace and   *)
(* after a trailing one, and one empty word for the empty string: what     *)
(* the split yields.                                                       *)
(***************************************************************************)
RECURSIVE TokensOf(_)
TokensOf(s) ==
    IF s = <<>> THEN <<>>
    ELSE IF IsWhitespace(s[1]) THEN TokensOf(SubSeq(s, 2, Len(s)))
    ELSE LET n == CHOOSE n \in 1..Len(s) :
                     /\ \A k \in 1..n : ~IsWhitespace(s[k])
                     /\ n = Len(s) \/ IsWhitespace(s[n + 1])
         IN  <<SubSeq(s, 1, n)>> \o TokensOf(SubSeq(s, n + 1, Len(s)))

PiecesOf(s) ==
    IF s = <<>> THEN <<<<>>>>
    ELSE (IF IsWhitespace(s[1]) THEN <<<<>>>> ELSE <<>>)
         \o TokensOf(s)
         \o (IF IsWhitespace(s[Len(s)]) THEN <<<<>>>> ELSE <<>>)

WordsAgree(nw, qw) ==
    /\ Len(qw) <= Len(nw)
    /\ \A k \in 1..Len(qw) : PathBeginsWith(nw[k], qw[k])

\* every run of whitespace replaced by a single space
RECURSIVE SingleSpaced(_)
SingleSpaced(s) ==
    IF Len(s) < 2 THEN s
    ELSE IF IsWhitespace(s[1]) /\ IsWhitespace(s[2]) THEN SingleSpaced(Tail(s))
    ELSE <<s[1]>> \o SingleSpaced(Tail(s))

WordBoundaryReturned == Done /\ engine = "matchesWithWordBoundary"

SpacingIsIrrelevant ==
    result[1] = matchesWithWordBoundary(SingleSpaced(fullName), SingleSpaced(query))

C30_SplitPiecesAgree ==
    WordBoundaryReturned =>
        /\ result[1] <=> WordsAgree(PiecesOf(fullName), PiecesOf(query))
        /\ SpacingIsIrrelevant

\* "coos   b" against "coos  bay": true, whatever the spacing
C30_Witness ==
    /\ WordBoundaryReturned
    /\ fullName = s_coos_2sp_bay /\ query = s_coos_3sp_b
    /\ result = <<TRUE>>
    /\ i = 2

=============================================================================
